------------------------------- MODULE AELJson -------------------------------
(***************************************************************************)
(* The canonical form of JSON that every signed or declared document must  *)
(* have (checker/internal/ael/canonical.go), beside the limits of a        *)
(* manifest.  A text is a sequence of tokens, as in AELLimits.             *)
(***************************************************************************)
EXTENDS AELLimits

CONSTANT maxSafeInteger     \* 2^53 - 1 in the code

ASSUME IntegerAssumption == maxSafeInteger \in Nat

VARIABLE canon      \* << >>, or <<the canonical form of the text>>

textVars == <<limitsVars, canon>>

----------------------------------------------------------------------------
(***************************************************************************)
(* Numbers.  The characters are ASCII codes.                               *)
(***************************************************************************)
Minus == 45
Zero == 48

DigitsValue(ds) == FoldLeft(LAMBDA n, d : 10 * n + (d - Zero), 0, ds)
Body(s) == IF s # << >> /\ s[1] = Minus THEN Tail(s) ELSE s
IntValue(s) == IF s[1] = Minus THEN -DigitsValue(Body(s)) ELSE DigitsValue(s)

parseCanonicalInteger(s) ==
    LET ok == /\ s # << >> /\ s # <<Minus, Zero>> /\ Body(s) # << >>
              /\ \A i \in DOMAIN Body(s) : Body(s)[i] \in Zero..(Zero + 9)
              /\ Len(Body(s)) > 1 => Body(s)[1] # Zero
              /\ IntValue(s) \in -maxSafeInteger..maxSafeInteger
    IN  [ok |-> ok, val |-> IF ok THEN IntValue(s) ELSE 0]

RECURSIVE Digits(_)
Digits(n) == IF n < 10 THEN <<Zero + n>> ELSE Append(Digits(n \div 10), Zero + (n % 10))
FormatInt(n) == IF n < 0 THEN <<Minus>> \o Digits(-n) ELSE Digits(n)

----------------------------------------------------------------------------
(***************************************************************************)
(* parseJSONValue: the value that starts at position i of t, and the       *)
(* position after it.  A value is [kind, of]: the members of an object by  *)
(* key, the items of an array, or the scalar.                              *)
(***************************************************************************)
Refused == [ok |-> FALSE, value |-> [kind |-> "none", of |-> << >>], next |-> 0]
Parsed(kind, of, next) == [ok |-> TRUE, value |-> [kind |-> kind, of |-> of], next |-> next]

\* Mutant: the last of two members with one key wins.
AddMemberLastWins(members, key, value) ==
    [ok |-> TRUE, members |-> [k \in DOMAIN members \cup {key} |->
                                  IF k = key THEN value ELSE members[k]]]

\* seen refuses a key of the object that came before.
AddMember(members, key, value) ==
    [ok |-> key \notin DOMAIN members,
     members |-> [k \in DOMAIN members \cup {key} |->
                     IF k = key THEN value ELSE members[k]]]

RECURSIVE parseJSONValue(_, _), parseMembers(_, _, _), parseItems(_, _, _)

parseMembers(t, i, members) ==
    IF i > Len(t) THEN Refused
    ELSE IF t[i].kind = "}" THEN Parsed("{", members, i + 1)
    ELSE LET member == parseJSONValue(t, i + 1)
             added == AddMember(members, t[i].val, member.value)
         IN  IF ~member.ok \/ ~added.ok THEN Refused
             ELSE parseMembers(t, member.next, added.members)

parseItems(t, i, items) ==
    IF i > Len(t) THEN Refused
    ELSE IF t[i].kind = "]" THEN Parsed("[", items, i + 1)
    ELSE LET item == parseJSONValue(t, i)
         IN  IF ~item.ok THEN Refused
             ELSE parseItems(t, item.next, Append(items, item.value))

parseJSONValue(t, i) ==
    IF i > Len(t) THEN Refused
    ELSE IF t[i].kind = "{" THEN parseMembers(t, i + 1, << >>)
    ELSE IF t[i].kind = "[" THEN parseItems(t, i + 1, << >>)
    ELSE IF t[i].kind = "number"
    THEN LET int == parseCanonicalInteger(t[i].val)
         IN  IF int.ok THEN Parsed("number", int.val, i + 1) ELSE Refused
    ELSE Parsed(t[i].kind, t[i].val, i + 1)

----------------------------------------------------------------------------
(***************************************************************************)
(* writeCanonical.  Keys are ordered by UTF-16 code unit, not code point:  *)
(* a character beyond the basic plane starts with a surrogate.             *)
(***************************************************************************)
utf16Encode(str) ==
    FlattenSeq([i \in DOMAIN str |->
        IF str[i] < 65536 THEN <<str[i]>>
        ELSE LET c == str[i] - 65536
             IN  <<55296 + (c \div 1024), 56320 + (c % 1024)>>])

LessSeq(a, b) ==
    \/ IsStrictPrefix(a, b)
    \/ \E i \in DOMAIN a \cap DOMAIN b :
          a[i] < b[i] /\ \A j \in 1..(i - 1) : a[j] = b[j]

\* Mutant: keys in the order of their code points.
compareCodePoints(a, b) == LessSeq(a, b)

\* TRUE for the code's "negative".
compareUTF16(a, b) == LessSeq(utf16Encode(a), utf16Encode(b))

StringToken(str) == [kind |-> "string", val |-> str, plain |-> TRUE]

RECURSIVE writeCanonical(_)
writeCanonical(v) ==
    IF v.kind = "{"
    THEN LET keys == SetToSortSeq(DOMAIN v.of, compareUTF16)
         IN  <<Token("{")>>
             \o FlattenSeq([i \in DOMAIN keys |->
                               <<StringToken(keys[i])>> \o writeCanonical(v.of[keys[i]])])
             \o <<Token("}")>>
    ELSE IF v.kind = "["
    THEN <<Token("[")>> \o FlattenSeq([i \in DOMAIN v.of |-> writeCanonical(v.of[i])])
         \o <<Token("]")>>
    ELSE <<[kind |-> v.kind, plain |-> TRUE,
            val |-> IF v.kind = "number" THEN FormatInt(v.of) ELSE v.of]>>

NoText == <<Token("refused")>>

\* One value, then the end of the bytes.
Canonicalize(t, end) ==
    LET parsed == parseJSONValue(t, 1)
    IN  IF end = "broken" \/ ~parsed.ok \/ parsed.next # Len(t) + 1 THEN NoText
        ELSE writeCanonical(parsed.value)

IsCanonical(t, end) == end = "clean" /\ Canonicalize(t, end) = t

----------------------------------------------------------------------------
TextInit == LimitsInit /\ canon = << >>

\* The checker reads a finished text.
Read(how) == Limit(how) /\ canon' = <<Canonicalize(text, how)>>

TextNext ==
    \/ \E tok \in WrittenNext(text) : Write(tok) /\ UNCHANGED canon
    \/ \E how \in Endings : Read(how)

----------------------------------------------------------------------------
(***************************************************************************)
(* Properties.                                                             *)
(***************************************************************************)
IsRead == canon # << >>
KeysOfOneObject(t, i, j) ==
    /\ Parent(t, i) = Parent(t, j)
    /\ \A k \in {i, j} : KeyComesAt(t, k) /\ t[k].kind = "string"

(***************************************************************************)
(* Only a text with one reading is accepted: one complete value, no two    *)
(* equal keys in one object however they are spelled, every number an      *)
(* integer in its one spelling and in the safe range; and every such text  *)
(* is.  (parseTokenValue and parseCanonicalInteger, canonical.go 64-163.)  *)
(***************************************************************************)
SafeSpellings == {FormatInt(n) : n \in -maxSafeInteger..maxSafeInteger}

OneReading ==
    /\ ending # "broken" /\ Closed /\ Size(0) = 1
    /\ \A i, j \in Positions :
          i < j /\ KeysOfOneObject(text, i, j) => text[i].val # text[j].val
    /\ \A i \in Positions : text[i].kind = "number" => text[i].val \in SafeSpellings

Unambiguous == IsRead => (canon[1] # NoText <=> OneReading)

(***************************************************************************)
(* The canonical form of an accepted text says the same (every value is    *)
(* reached by the same keys and indexes), has its keys in UTF-16 order in  *)
(* every object and no needless escape, and is its own canonical form.     *)
(* (writeCanonical and compareUTF16, canonical.go 165-259.)                *)
(***************************************************************************)
\* The keys and indexes from the top of t down to position i.
Step(t, i) ==
    IF InObject(t, i) THEN t[Max({j \in Children(t, Parent(t, i)) : j < i})].val
    ELSE <<-Elders(t, i)>>

RECURSIVE Path(_, _)
Path(t, i) ==
    IF Parent(t, i) = 0 THEN <<Step(t, i)>>
    ELSE Append(Path(t, Parent(t, i)), Step(t, i))

Values(t) ==
    {i \in DOMAIN t : t[i].kind \notin Closers /\ ~KeyComesAt(t, i)}
Says(t) == {<<Path(t, i), t[i].kind, t[i].val>> : i \in Values(t)}

\* By code unit, the characters beyond the basic plane come between those
\* below and those above the surrogates.
UnitRank(c) == IF c \in 57344..65535 THEN c + 1114112 ELSE c
InUnitOrder(a, b) ==
    LessSeq([i \in DOMAIN a |-> UnitRank(a[i])], [i \in DOMAIN b |-> UnitRank(b[i])])

CanonicalForm ==
    IsRead /\ canon[1] # NoText =>
        LET out == canon[1]
        IN  /\ Says(out) = Says(text)
            /\ \A i \in DOMAIN out : out[i].plain
            /\ \A i, j \in DOMAIN out :
                  i < j /\ KeysOfOneObject(out, i, j) => InUnitOrder(out[i].val, out[j].val)
            /\ IsCanonical(out, "clean")
=============================================================================
