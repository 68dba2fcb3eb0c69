------------------------------- MODULE AELPaths -------------------------------
(***************************************************************************)
(* Where emitting a package reads and writes: validateEmitPaths and        *)
(* createEmitStagingDir of checker/internal/ael/emit.go, over a file       *)
(* system with symbolic links.  A path is the sequence of its components   *)
(* from the root; ".." may be one of them.  Of files only directories and  *)
(* links are kept.                                                         *)
(***************************************************************************)
EXTENDS Integers, SequencesExt

CONSTANTS
    Components,     \* the names of directories and links
    MaxEntries      \* bound on the number of directory entries

ASSUME EntriesAssumption == MaxEntries \in Nat
ASSUME ComponentsAssumption == ".." \notin Components

VARIABLES
    fs,         \* each existing path to "directory" or the path it links to
    options     \* << >>, or <<[out, input]>>: the arguments of EmitEvaluationPackage

pathVars == <<fs, options>>

----------------------------------------------------------------------------
(***************************************************************************)
(* The operating system and path/filepath.                                 *)
(***************************************************************************)
RootDir == << >>
Missing == <<"missing">>
Fault == <<"fault">>        \* any other error: here, too many links
NoError == <<"none">>
Found(path) == <<"found", path>>
ParentDir(path) == IF path = RootDir THEN RootDir ELSE Front(path)

\* One component more is followed; .. is taken where the links have led.
Follow(w) ==
    LET next == Append(w.at, Head(w.rest))
    IN  IF w.rest = << >> \/ w.error # NoError THEN w
        ELSE IF Head(w.rest) = ".." THEN [w EXCEPT !.at = ParentDir(@), !.rest = Tail(@)]
        ELSE IF next \notin DOMAIN fs THEN [w EXCEPT !.error = Missing]
        ELSE IF fs[next] = <<"directory">> THEN [w EXCEPT !.at = next, !.rest = Tail(@)]
        ELSE IF w.links = 0 THEN [w EXCEPT !.error = Fault]
        ELSE [w EXCEPT !.at = RootDir, !.rest = fs[next][2] \o Tail(@), !.links = @ - 1]

\* Each of MaxEntries links puts LinkLength components in the place of one.
LinkLength == 2
Steps(path) == Len(path) + LinkLength * MaxEntries
SetOut(path) == [at |-> RootDir, rest |-> path, links |-> MaxEntries, error |-> NoError]
Walk(path) ==
    LET after[n \in 0..Steps(path)] == IF n = 0 THEN SetOut(path) ELSE Follow(after[n - 1])
    IN  after

\* The path that is left when every link is followed (filepath.EvalSymlinks,
\* and any system call that follows a last link).
EvalSymlinks(path) ==
    LET w == Walk(path)[Steps(path)]
    IN  IF w.error # NoError THEN w.error ELSE Found(w.at)

\* The entry itself: a last link is not followed.
Lstat(path) ==
    IF path = RootDir \/ Last(path) = ".." THEN EvalSymlinks(path)
    ELSE LET dir == EvalSymlinks(Front(path))
         IN  CASE dir[1] # "found" -> dir
               [] dir[1] = "found" /\ Append(dir[2], Last(path)) \in DOMAIN fs ->
                    Found(Append(dir[2], Last(path)))
               [] OTHER -> Missing
IsLink(real) == real # RootDir /\ fs[real] # <<"directory">>
IsEmpty(real) == \A path \in DOMAIN fs : path = RootDir \/ Front(path) # real

\* filepath.Clean takes .. for the component before it, whatever that is.
Clean(path) ==
    LET done[n \in 0..Len(path)] ==
          IF n = 0 THEN RootDir
          ELSE IF path[n] = ".." THEN ParentDir(done[n - 1]) ELSE Append(done[n - 1], path[n])
    IN  done[Len(path)]

----------------------------------------------------------------------------
(***************************************************************************)
(* validateEmitPaths.                                                      *)
(***************************************************************************)
pathWithin(candidate, ancestor) == IsPrefix(ancestor, candidate)

\* Mutant: no link is followed.
resolveEmitPathLexical(path) == Found(Clean(path))

\* The longest existing part of a path with its links followed, and the rest.
resolveEmitPath(path) ==
    LET abs == Clean(path)
        Probe(n) == SubSeq(abs, 1, n)
        stop == CHOOSE n \in 0..Len(abs) :
                  /\ Lstat(Probe(n)) # Missing
                  /\ \A longer \in n+1..Len(abs) : Lstat(Probe(longer)) = Missing
        resolved == EvalSymlinks(Probe(stop))
    IN  CASE Lstat(Probe(stop)) = Fault -> Fault
          [] Lstat(Probe(stop)) # Fault /\ resolved[1] = "found" ->
               Found(resolved[2] \o SubSeq(abs, stop + 1, Len(abs)))
          [] OTHER -> Fault

validateEmitPaths(args) ==
    LET out == resolveEmitPath(Clean(args.out))
        input == resolveEmitPath(args.input)
    IN  /\ out[1] = "found" /\ input[1] = "found"
        /\ ~pathWithin(out[2], input[2]) /\ ~pathWithin(input[2], out[2])

(***************************************************************************)
(* Staging and copying.  MkdirAll makes the parent of the output, which is *)
(* cleaned, where its links lead; a missing part is made below the rest.   *)
(***************************************************************************)
StagingParent(out) == resolveEmitPath(ParentDir(Clean(out)))

\* createEmitStagingDir succeeds: the output is missing or an empty directory.
Staged(out) ==
    LET at == EvalSymlinks(Clean(out))
    IN  /\ out # RootDir /\ StagingParent(out)[1] = "found"
        /\ at = Missing \/ (at[1] = "found" /\ IsEmpty(at[2]))

\* copyTree walks its source as given, unless that is itself a link.
Copied(input) == Lstat(input)[1] = "found" /\ ~IsLink(Lstat(input)[2])

----------------------------------------------------------------------------
(***************************************************************************)
(* File systems and arguments.                                             *)
(***************************************************************************)
Places == {<<a>> : a \in Components} \cup {<<a, b>> : a, b \in Components}
Outs == Places \cup {<<a, b, c>> : a, b, c \in Components}
WithParent == {<<a, "..">> : a \in Components} \cup {<<a, "..", b>> : a, b \in Components}

PathsInit == fs = [path \in {RootDir} |-> <<"directory">>] /\ options = << >>

MakeEntry ==
    /\ options = << >> /\ Cardinality(DOMAIN fs) <= MaxEntries
    /\ \E path \in Places \ DOMAIN fs :
          /\ ParentDir(path) \in DOMAIN fs /\ fs[ParentDir(path)] = <<"directory">>
          /\ \E entry \in {<<"directory">>} \cup {<<"link", to>> : to \in {RootDir} \cup Places} :
                fs' = [p \in {path} \cup DOMAIN fs |-> IF p = path THEN entry ELSE fs[p]]
    /\ UNCHANGED options

Emit ==
    /\ options = << >>
    /\ \E out \in Outs \cup WithParent, input \in Places \cup WithParent :
          Copied(input) /\ options' = <<[out |-> out, input |-> input]>>
    /\ UNCHANGED fs

PathsNext == MakeEntry \/ Emit

PathsSpec == PathsInit /\ [][PathsNext]_pathVars

----------------------------------------------------------------------------
(***************************************************************************)
(* Properties.                                                             *)
(***************************************************************************)
\* An emission that goes on to copy does not stage the package inside what
\* it copies, where the copy would become its own source.
\* (The comment of validateEmitPaths, emit.go 719-726.)
Apart(args) ==
    validateEmitPaths(args) /\ Staged(args.out) =>
        ~pathWithin(StagingParent(args.out)[2], Lstat(args.input)[2])

\* The comment, for every path.
OverlapRefused == \A i \in DOMAIN options : Apart(options[i])

\* What validateEmitPaths does ensure: an output that is not itself a link,
\* and an input without "..", are kept apart through any links on the way;
\* and an output somewhere else is not refused.
PlainOverlapRefused ==
    \A i \in DOMAIN options :
      LET args == options[i]
          out == EvalSymlinks(ParentDir(args.out))
          real == Lstat(args.input)[2]
      IN  /\ /\ ".." \notin ToSet(args.input)
             /\ Lstat(Clean(args.out))[1] = "found" => ~IsLink(Lstat(Clean(args.out))[2])
             => Apart(args)
          /\ /\ ".." \notin ToSet(args.out) \cup ToSet(args.input) /\ out[1] = "found"
             /\ EvalSymlinks(args.out) = Missing /\ Lstat(args.out) = Missing
             /\ ~pathWithin(out[2], real)
             => validateEmitPaths(args)
=============================================================================
