------------------------------ MODULE AELLimits ------------------------------
(***************************************************************************)
(* The aggregate limits a JSON manifest must keep, in one pass over its    *)
(* tokens (validateManifestResourceLimits, checker/internal/ael/schema.go).*)
(*                                                                         *)
(* A text is the sequence of tokens the standard decoder cuts it into.  A  *)
(* token is [kind, val, plain]: kind is "{", "}", "[", "]", "string",      *)
(* "number" or "literal"; val is the decoded string, by code point, or the *)
(* number's characters; plain is FALSE when it is spelled with an escape   *)
(* it does not need.  Commas, colons and white space are the decoder's.    *)
(***************************************************************************)
EXTENDS Integers, SequencesExt

CONSTANTS
    Keys,               \* the tokens used as object keys
    Scalars,            \* the tokens used as scalar values
    MaxTokens,          \* bound on the length of a text
    MaxNumbered,        \* and of a text that holds a number
    maxManifestStringBytes, maxManifestObjectFields,
    maxManifestArrayItems, maxManifestNestingDepth

ASSUME LimitsAssumption ==
    {MaxTokens, MaxNumbered, maxManifestStringBytes, maxManifestObjectFields,
     maxManifestArrayItems, maxManifestNestingDepth} \subseteq Nat

VARIABLES
    text,       \* the tokens written so far
    ending,     \* "open" while it grows, then "clean", "broken" or "padded"
    within      \* << >>, or <<whether it was accepted>>

limitsVars == <<text, ending, within>>

Token(kind) == [kind |-> kind, val |-> << >>, plain |-> TRUE]
Openers == {"{", "["}
Closers == {"}", "]"}

----------------------------------------------------------------------------
(***************************************************************************)
(* The decoder's grammar, by position.  Parent(t, i) is the position of    *)
(* the innermost container still open before i, 0 at the top level.        *)
(***************************************************************************)
Depth(t, i) ==
    Cardinality({j \in 1..(i - 1) : t[j].kind \in Openers})
        - Cardinality({j \in 1..(i - 1) : t[j].kind \in Closers})

Parent(t, i) ==
    Max({0} \cup {j \in 1..(i - 1) : /\ t[j].kind \in Openers
                                     /\ Depth(t, i) > 0
                                     /\ Depth(t, j) = Depth(t, i) - 1})

Children(t, j) ==
    {i \in DOMAIN t : t[i].kind \notin Closers /\ Parent(t, i) = j}

InObject(t, i) == Parent(t, i) # 0 /\ t[Parent(t, i)].kind = "{"
Elders(t, i) == Cardinality({j \in Children(t, Parent(t, i)) : j < i})
KeyComesAt(t, i) == InObject(t, i) /\ Elders(t, i) % 2 = 0

Legal(t, tok) ==
    LET i == Len(t) + 1
    IN  IF tok.kind \in Closers
        THEN /\ Parent(t, i) # 0
             /\ <<t[Parent(t, i)].kind, tok.kind>> \in {<<"{", "}">>, <<"[", "]">>}
             /\ InObject(t, i) => KeyComesAt(t, i)
        ELSE KeyComesAt(t, i) => tok.kind = "string"

----------------------------------------------------------------------------
(***************************************************************************)
(* validateManifestResourceLimits: one pass with a stack of containers.    *)
(***************************************************************************)
ByteLength(str) ==
    FoldSeq(LAMBDA c, n : n + (IF c < 128 THEN 1 ELSE IF c < 2048 THEN 2
                               ELSE IF c < 65536 THEN 3 ELSE 4), 0, str)
LongString(tok) == tok.kind = "string" /\ ByteLength(tok.val) > maxManifestStringBytes

Push(stack, tok) ==
    Append(stack, [object |-> tok.kind = "{", count |-> 0, expectKey |-> tok.kind = "{"])

\* Mutant: a container is not an item of the array it stands in.
CountScalarValue(stack, tok) ==
    IF stack = << >> THEN stack
    ELSE LET top == Len(stack)
         IN  IF stack[top].object
             THEN [stack EXCEPT ![top].expectKey = TRUE]
             ELSE [stack EXCEPT ![top].count = IF tok.kind \in Openers THEN @ ELSE @ + 1]

\* A value completes a member of an object, or is one more item of an array.
CountValue(stack, tok) ==
    IF stack = << >> THEN stack
    ELSE LET top == Len(stack)
         IN  IF stack[top].object
             THEN [stack EXCEPT ![top].expectKey = TRUE]
             ELSE [stack EXCEPT ![top].count = @ + 1]

LimitStep(state, tok) ==
    LET stack == state.stack
        top == Len(stack)
    IN  IF ~state.ok THEN state
        ELSE IF tok.kind \in Closers
        THEN [state EXCEPT !.stack = Front(stack)]
        ELSE IF stack # << >> /\ stack[top].object /\ stack[top].expectKey
        THEN [ok |-> ~LongString(tok) /\ stack[top].count < maxManifestObjectFields,
              stack |-> [stack EXCEPT ![top] = [object |-> TRUE, count |-> @.count + 1,
                                                expectKey |-> FALSE]]]
        ELSE LET counted == CountValue(stack, tok)
                 full == /\ stack # << >>
                         /\ ~stack[top].object
                         /\ counted[top].count > maxManifestArrayItems
             IN  IF full \/ LongString(tok) THEN [state EXCEPT !.ok = FALSE]
                 ELSE IF tok.kind \in Openers
                 THEN [ok |-> top < maxManifestNestingDepth, stack |-> Push(counted, tok)]
                 ELSE [state EXCEPT !.stack = counted]

\* Where the pass stands after the whole of t.
Pass(t) ==
    LET after[n \in 0..Len(t)] ==
          IF n = 0 THEN [ok |-> TRUE, stack |-> << >>] ELSE LimitStep(after[n - 1], t[n])
    IN  after[Len(t)]

validateManifestResourceLimits(t, end) ==
    end = "clean" /\ Pass(t).ok /\ Pass(t).stack = << >>

----------------------------------------------------------------------------
LimitsInit == text = << >> /\ ending = "open" /\ within = << >>

\* The next token; at most one of a text is a number.
Write(tok) ==
    /\ ending = "open" /\ Legal(text, tok)
    /\ LET numbered == \E i \in DOMAIN text : text[i].kind = "number"
       IN  /\ Len(text) < IF numbered THEN MaxNumbered ELSE MaxTokens
           /\ tok.kind = "number" => ~numbered
    /\ text' = Append(text, tok)
    /\ UNCHANGED <<ending, within>>

\* The bytes end here ("clean"), end in something that is not JSON, or go on
\* with white space past maxManifestBytes; the pass is made over them.
Limit(how) ==
    /\ ending = "open"
    /\ ending' = how
    /\ within' = <<validateManifestResourceLimits(text, how)>>
    /\ UNCHANGED text

WrittenNext(t) ==
    IF KeyComesAt(t, Len(t) + 1) THEN Keys \cup {Token("}")}
    ELSE Scalars \cup {Token(kind) : kind \in Openers \cup Closers}

Endings == {"clean", "broken", "padded"}

LimitsNext ==
    \/ \E tok \in WrittenNext(text) : Write(tok)
    \/ \E how \in Endings : Limit(how)

LimitsSpec == LimitsInit /\ [][LimitsNext]_limitsVars

----------------------------------------------------------------------------
(***************************************************************************)
(* Property.                                                               *)
(***************************************************************************)
Positions == DOMAIN text
Size(j) == Cardinality(Children(text, j))
Closed == Depth(text, Len(text) + 1) = 0

(***************************************************************************)
(* The pass accepts a manifest exactly when every container in it, at      *)
(* whatever depth and after whatever siblings, keeps the four limits, it   *)
(* is closed, well formed and within maxManifestBytes.  (schema.go         *)
(* 362-436.)                                                               *)
(***************************************************************************)
WithinLimits ==
    /\ ending = "clean" /\ Closed
    /\ \A i \in Positions :
          /\ text[i].kind = "{" => Size(i) <= 2 * maxManifestObjectFields
          /\ text[i].kind = "[" => Size(i) <= maxManifestArrayItems
          /\ text[i].kind \in Openers => Depth(text, i) < maxManifestNestingDepth
          /\ ~LongString(text[i])

LimitsExact == within # << >> => (within[1] <=> WithinLimits)
=============================================================================
