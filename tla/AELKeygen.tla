----------------------------- MODULE AELKeygen ------------------------------
(***************************************************************************)
(* Key generation (checker/cmd/aelpackage/keygen.go).  aelpackage keygen   *)
(* makes the key pair of one role: the private half goes into <role>.key   *)
(* beside the trust root, the public half into the role's directory of the *)
(* trust root, under its fingerprint.  Each half is written to a temporary *)
(* file that is then hard-linked to its name; when the public half cannot  *)
(* be written the private one is removed again.                            *)
(*                                                                         *)
(* What makes it hard: several generators of a role share the private name,*)
(* also when their trust roots differ but lie in one directory; a system   *)
(* call may fail anywhere and a generator may die between the two links.   *)
(*                                                                         *)
(* Roles share no file, so one role is modelled.  Content is <<half, key>>,*)
(* <<"empty">>, or <<"other">> for a file that was there before.           *)
(***************************************************************************)
EXTENDS Integers, Functions

CONSTANTS
    Generators,     \* runs of keygen, each repeated when it fails
    Roots,          \* trust roots in one directory
    RootOf,         \* the trust root each generator was given
    MaxFaults       \* bound on failed system calls and crashes

ASSUME GeneratorsAssumption == RootOf \in [Generators -> Roots] /\ "private" \notin Roots
ASSUME FaultsAssumption == MaxFaults \in Nat

VARIABLES
    at,         \* what each generator does next
    key,        \* the key pair it generated
    half,       \* the half it is writing: "private" or "public"
    temp,       \* its temporary file: << >> or <<content>>
    root,       \* each trust root: "absent", "directory" or "symlink"
    roleDir,    \* the role's directory in each trust root, likewise
    files,      \* the key files: a function from the names taken to contents
    faults

keygenVars == <<at, key, half, temp, root, roleDir, files, faults>>

PrivatePath == <<"private">>
PublicPath(r, k) == <<r, k>>
Path(g) == IF half[g] = "private" THEN PrivatePath ELSE PublicPath(RootOf[g], key[g])

\* ed25519.GenerateKey: the keys of a generator are numbered.  Attempts with no
\* fault in between share a number, which no file bears then.
Keys == Generators \X (0..(MaxFaults + 1))

KeygenInit ==
    /\ at = [g \in Generators |-> "lstat"]
    /\ key = [g \in Generators |-> <<g, 0>>]
    /\ half = [g \in Generators |-> "private"]
    /\ temp = [g \in Generators |-> << >>]
    /\ root \in [Roots -> {"absent", "directory", "symlink"}]
    /\ roleDir \in [Roots -> {"absent", "directory", "symlink"}]
    /\ \A r \in Roots : root[r] = "absent" => roleDir[r] = "absent"
    /\ \E taken \in SUBSET {PublicPath(RootOf[g], <<g, 0>>) : g \in Generators} :
          /\ \A p \in taken : roleDir[p[1]] = "directory"
          /\ files = [p \in taken |-> <<"other">>]
    /\ faults = 0

Working == {"lstat", "mkdir", "inspect", "create", "write", "link",
            "unlink", "undo", "cleanup", "report"}

Moves(g, from, to) == at[g] = from /\ at' = [at EXCEPT ![g] = to]

----------------------------------------------------------------------------
(***************************************************************************)
(* generateTrustKeypair.                                                   *)
(***************************************************************************)

\* A trust root that is there must be a real directory.
LstatRoot(g) ==
    /\ Moves(g, "lstat", IF root[RootOf[g]] = "symlink" THEN "failed" ELSE "mkdir")
    /\ UNCHANGED <<key, half, temp, root, roleDir, files, faults>>

\* Mutant: a directory that is there already is an error.
MkdirFresh(g) ==
    /\ Moves(g, "mkdir", IF roleDir[RootOf[g]] = "absent" THEN "inspect" ELSE "failed")
    /\ root' = [root EXCEPT ![RootOf[g]] = IF @ = "absent" THEN "directory" ELSE @]
    /\ roleDir' = [roleDir EXCEPT ![RootOf[g]] = IF @ = "absent" THEN "directory" ELSE @]
    /\ UNCHANGED <<key, half, temp, files, faults>>

\* os.MkdirAll makes what is missing and is content with a link to a directory.
MkdirAll(g) ==
    /\ Moves(g, "mkdir", "inspect")
    /\ root' = [root EXCEPT ![RootOf[g]] = IF @ = "absent" THEN "directory" ELSE @]
    /\ roleDir' = [roleDir EXCEPT ![RootOf[g]] = IF @ = "absent" THEN "directory" ELSE @]
    /\ UNCHANGED <<key, half, temp, files, faults>>

InspectRoleDir(g) ==
    /\ Moves(g, "inspect", IF roleDir[RootOf[g]] = "directory" THEN "create" ELSE "failed")
    /\ UNCHANGED <<key, half, temp, root, roleDir, files, faults>>

----------------------------------------------------------------------------
(***************************************************************************)
(* writeKeyFileExclusive, for the private half and then for the public one.*)
(* The temporary file is removed in either case ("unlink" after success,   *)
(* "undo" after a failure).                                                *)
(***************************************************************************)
CreateTemp(g) ==
    /\ Moves(g, "create", "write")
    /\ temp' = [temp EXCEPT ![g] = << <<"empty">> >>]
    /\ UNCHANGED <<key, half, root, roleDir, files, faults>>

WriteTemp(g) ==
    /\ Moves(g, "write", "link")
    /\ temp' = [temp EXCEPT ![g] = << <<half[g], key[g]>> >>]
    /\ UNCHANGED <<key, half, root, roleDir, files, faults>>

Put(path, content) ==
    files' = [p \in DOMAIN files \cup {path} |-> IF p = path THEN content ELSE files[p]]

\* Mutant: a rename, which replaces what is there.
LinkFileOver(g) ==
    /\ Moves(g, "link", "unlink")
    /\ Put(Path(g), temp[g][1])
    /\ UNCHANGED <<key, half, temp, root, roleDir, faults>>

\* link(2) never replaces a name.
LinkFile(g) ==
    /\ UNCHANGED <<key, half, temp, root, roleDir, faults>>
    /\ \/ /\ Path(g) \notin DOMAIN files
          /\ Moves(g, "link", "unlink")
          /\ Put(Path(g), temp[g][1])
       \/ /\ Path(g) \in DOMAIN files
          /\ Moves(g, "link", "undo")
          /\ UNCHANGED files

RemoveTemp(g) ==
    /\ Moves(g, "unlink", IF half[g] = "private" THEN "create" ELSE "report")
    /\ temp' = [temp EXCEPT ![g] = << >>]
    /\ half' = [half EXCEPT ![g] = "public"]
    /\ UNCHANGED <<key, root, roleDir, files, faults>>

\* Mutant: the private key is removed whichever half failed.
UndoTempCleaningUp(g) ==
    /\ Moves(g, "undo", "cleanup")
    /\ temp' = [temp EXCEPT ![g] = << >>]
    /\ UNCHANGED <<key, half, root, roleDir, files, faults>>

\* Mutant: the private key is not removed when the public one fails.
UndoTempOnly(g) ==
    /\ Moves(g, "undo", "failed")
    /\ temp' = [temp EXCEPT ![g] = << >>]
    /\ UNCHANGED <<key, half, root, roleDir, files, faults>>

UndoTemp(g) ==
    /\ Moves(g, "undo", IF half[g] = "private" THEN "failed" ELSE "cleanup")
    /\ temp' = [temp EXCEPT ![g] = << >>]
    /\ UNCHANGED <<key, half, root, roleDir, files, faults>>

\* os.Remove(privatePath), whatever file that is by now.
RemovePrivate(g) ==
    /\ Moves(g, "cleanup", "failed")
    /\ files' = Restrict(files, DOMAIN files \ {PrivatePath})
    /\ UNCHANGED <<key, half, temp, root, roleDir, faults>>

\* runKeygen prints the fingerprint and both paths, and exits 0.
ReportKeys(g) ==
    /\ Moves(g, "report", "done")
    /\ UNCHANGED <<key, half, temp, root, roleDir, files, faults>>

----------------------------------------------------------------------------
(***************************************************************************)
(* Failures.  A failed call while a half is written removes the temporary  *)
(* file; a removal of that file that fails goes unnoticed.  A failed       *)
(* removal of the private key is reported as such ("stranded").            *)
(***************************************************************************)
StepFails(g) ==
    /\ at[g] \in Working \ {"unlink", "undo"} /\ faults < MaxFaults
    /\ faults' = faults + 1
    /\ at' = [at EXCEPT ![g] = IF @ \in {"create", "write", "link"} THEN "undo"
                               ELSE IF @ = "cleanup" THEN "stranded" ELSE "failed"]
    /\ UNCHANGED <<key, half, temp, root, roleDir, files>>

Crash(g) ==
    /\ at[g] \in Working /\ faults < MaxFaults
    /\ faults' = faults + 1
    /\ at' = [at EXCEPT ![g] = "crashed"]
    /\ UNCHANGED <<key, half, temp, root, roleDir, files>>

\* keygen is run again.
Retry(g) ==
    /\ at[g] \in {"failed", "stranded", "crashed"}
    /\ at' = [at EXCEPT ![g] = "lstat"]
    /\ key' = [key EXCEPT ![g] = <<g, faults + 1>>]
    /\ half' = [half EXCEPT ![g] = "private"]
    /\ temp' = [temp EXCEPT ![g] = << >>]
    /\ UNCHANGED <<root, roleDir, files, faults>>

\* Somebody replaces a symbolic link by a directory.
MendRoot(r) ==
    /\ root[r] = "symlink" \/ roleDir[r] = "symlink"
    /\ root' = [root EXCEPT ![r] = "directory"]
    /\ roleDir' = [roleDir EXCEPT ![r] = "directory"]
    /\ UNCHANGED <<at, key, half, temp, files, faults>>

\* A private key without its public half that nobody is working on any more,
\* and somebody who deletes it.
Holds(path, content) == path \in DOMAIN files /\ files[path] = content
Trusted(k) == \E r \in Roots : Holds(PublicPath(r, k), <<"public", k>>)
MakerAtWork(k) == \E g \in Generators :
    key[g] = k /\ at[g] \in Working /\ (half[g] = "public" \/ at[g] = "unlink")
Orphaned == \E k \in Keys :
    Holds(PrivatePath, <<"private", k>>) /\ ~Trusted(k) /\ ~MakerAtWork(k)

ClearOrphan ==
    /\ Orphaned
    /\ files' = Restrict(files, DOMAIN files \ {PrivatePath})
    /\ UNCHANGED <<at, key, half, temp, root, roleDir, faults>>

----------------------------------------------------------------------------
Step(g) ==
    \/ LstatRoot(g) \/ MkdirAll(g) \/ InspectRoleDir(g)
    \/ CreateTemp(g) \/ WriteTemp(g) \/ LinkFile(g) \/ RemoveTemp(g)
    \/ UndoTemp(g) \/ RemovePrivate(g) \/ ReportKeys(g)

KeygenNext ==
    \/ \E g \in Generators : Step(g) \/ StepFails(g) \/ Crash(g) \/ Retry(g)
    \/ \E r \in Roots : MendRoot(r)
    \/ ClearOrphan

\* A generator is sequential code that waits for nobody; whoever needs the key
\* repeats a generation that failed.
KeygenFairness == \A g \in Generators : WF_keygenVars(Step(g)) /\ WF_keygenVars(Retry(g))

KeygenSpec == KeygenInit /\ [][KeygenNext]_keygenVars
KeygenFairSpec == KeygenSpec /\ KeygenFairness

----------------------------------------------------------------------------
(***************************************************************************)
(* A generator that exited 0 keeps what it reported: both halves of its    *)
(* key stay where it said they are, whatever other generators of the role  *)
(* do, in whichever trust root, and however they fail (runKeygen,          *)
(* keygen.go 49-58; the cleanup at keygen.go 102-106).                     *)
(***************************************************************************)
KeysKept ==
    \A g \in Generators : at[g] = "done" =>
        /\ Holds(PrivatePath, <<"private", key[g]>>)
        /\ Holds(PublicPath(RootOf[g], key[g]), <<"public", key[g]>>)

(***************************************************************************)
(* A key is trusted only while its private half is at hand: the role's     *)
(* private key is the one whose public half any trust root of the          *)
(* directory trusts, at every moment and after every crash (the order of   *)
(* the two links, keygen.go 96-107).                                       *)
(***************************************************************************)
TrustedUsable ==
    \A k \in Keys : Trusted(k) => Holds(PrivatePath, <<"private", k>>)

(***************************************************************************)
(* A generation that reports a plain error leaves no private key behind    *)
(* that is not trusted (keygen.go 101-107); one that dies, or cannot       *)
(* remove the file, may.                                                   *)
(***************************************************************************)
FailureLeavesNoKey ==
    \A g \in Generators :
        at[g] = "failed" /\ Holds(PrivatePath, <<"private", key[g]>>) => Trusted(key[g])

(***************************************************************************)
(* Generators that are run again get the role its key, unless one that     *)
(* died left its private key behind: that file blocks every later          *)
(* generation until somebody deletes it (keygen.go 97, 150-154).           *)
(***************************************************************************)
RealDirectories == \A r \in Roots : "symlink" \notin {root[r], roleDir[r]}

EventuallyKeyed ==
    RealDirectories => []<>(Orphaned \/ \E k \in Keys : Trusted(k))
=============================================================================
