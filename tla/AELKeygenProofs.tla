-------------------------- MODULE AELKeygenProofs ---------------------------
(***************************************************************************)
(* For every number of generators, trust roots, failures and crashes: the  *)
(* three safety properties of key generation.  None is inductive; what     *)
(* makes them so is who may have put the role's private key there          *)
(* (HasPrivate), what of the pair in work is published (Published), and    *)
(* that a key numbered after the last fault is its generator's present one *)
(* (Fresh), so that a repeated generation never meets its own old files.   *)
(***************************************************************************)
EXTENDS AELKeygen, TLAPS

\* The key files, as far as they matter: what lies under the role's private
\* name, and the names of the public keys.
Private == IF PrivatePath \in DOMAIN files THEN files[PrivatePath] ELSE << >>
Public == {p \in DOMAIN files \ {PrivatePath} : files[p] = <<"public", p[2]>>}

PrivateIs(k) == Private = <<"private", k>>
IsTrusted(k) == \E r \in Roots : PublicPath(r, k) \in Public

HasPrivate(g) == at[g] \in Working /\ (half[g] = "public" \/ at[g] = "unlink")
Published(g) == half[g] = "public" /\ at[g] \in {"unlink", "report", "done"}

KeygenType ==
    /\ at \in [Generators -> Working \cup {"done", "failed", "stranded", "crashed"}]
    /\ key = [g \in Generators |-> key[g]]
    /\ half \in [Generators -> {"private", "public"}]
    /\ temp = [g \in Generators |-> temp[g]]
    /\ faults \in Nat

\* Every generator's key is its own, and numbered at most one past the faults.
OwnKey(g) == \E n \in Nat : n <= faults + 1 /\ key[g] = <<g, n>>

\* What the generator is doing fits the half it is writing.
InOrder(g) ==
    /\ at[g] \in {"lstat", "mkdir", "inspect"} => half[g] = "private"
    /\ at[g] \in {"cleanup", "report", "done"} => half[g] = "public"
    /\ at[g] = "link" => temp[g] = << <<half[g], key[g]>> >>

\* At work, the private half is there exactly from its link on, and the public
\* half exactly from its own.
AtWork(g) ==
    /\ at[g] \in Working => (PrivateIs(key[g]) <=> HasPrivate(g))
    /\ at[g] \in Working => (IsTrusted(key[g]) <=> Published(g))
    /\ Published(g) => PublicPath(RootOf[g], key[g]) \in Public

\* Finished, it kept its keys or left none.
Finished(g) ==
    /\ at[g] = "done" => PrivateIs(key[g])
    /\ at[g] = "failed" /\ PrivateIs(key[g]) => IsTrusted(key[g])

\* A key numbered after the last fault is the one its generator has now.
Fresh(g) ==
    \A n \in Nat : n > faults =>
        /\ PrivateIs(<<g, n>>) => key[g] = <<g, n>> /\ (HasPrivate(g) \/ at[g] = "done")
        /\ IsTrusted(<<g, n>>) => key[g] = <<g, n>> /\ Published(g)

Each(g) == OwnKey(g) /\ InOrder(g) /\ AtWork(g) /\ Finished(g) /\ Fresh(g)

\* Whatever is trusted has its private half at hand.
Usable == \A k : IsTrusted(k) => PrivateIs(k)

KeygenInv == KeygenType /\ (\A g \in Generators : Each(g)) /\ Usable

----------------------------------------------------------------------------
(***************************************************************************)
(* The two views of the key files agree.                                   *)
(***************************************************************************)
LEMMA NamesDiffer == \A r \in Roots : \A k : PrivatePath # PublicPath(r, k)
  <1> SUFFICES ASSUME NEW r \in Roots, NEW k, PrivatePath = PublicPath(r, k)
               PROVE  FALSE
    OBVIOUS
  <1>1. PrivatePath[1] = PublicPath(r, k)[1]
    OBVIOUS
  <1> QED
    BY <1>1, GeneratorsAssumption DEF PrivatePath, PublicPath

LEMMA NamesOfKeys == \A r, s, k, l : PublicPath(r, k) = PublicPath(s, l) <=> r = s /\ k = l
  BY DEF PublicPath

LEMMA PrivateHeld == \A k : Holds(PrivatePath, <<"private", k>>) <=> PrivateIs(k)
  BY DEF Holds, PrivateIs, Private

LEMMA PublicHeld ==
  \A r \in Roots : \A k :
      Holds(PublicPath(r, k), <<"public", k>>) <=> PublicPath(r, k) \in Public
  <1>1. \A r \in Roots : \A k : PublicPath(r, k)[2] = k
    BY DEF PublicPath
  <1> QED
    BY <1>1, NamesDiffer DEF Holds, Public

LEMMA TrustedHeld == \A k : Trusted(k) <=> IsTrusted(k)
  BY PublicHeld DEF Trusted, IsTrusted

(***************************************************************************)
(* What the steps do to the key files.                                     *)
(***************************************************************************)
SameFiles == Private' = Private /\ Public' = Public
Removed == Private' = << >> /\ Public' = Public
LinkedPrivate(k) == Private = << >> /\ Private' = <<"private", k>> /\ Public' = Public
LinkedPublic(r, k) == Private' = Private /\ Public' = Public \cup {PublicPath(r, k)}

LEMMA FilesSame == ASSUME UNCHANGED files PROVE SameFiles
  BY DEF SameFiles, Private, Public

LEMMA FilesRemoved ==
  ASSUME files' = Restrict(files, DOMAIN files \ {PrivatePath})
  PROVE  Removed
  <1>1. /\ DOMAIN files' = DOMAIN files \ {PrivatePath}
        /\ \A p \in DOMAIN files' : files'[p] = files[p]
    BY DEF Restrict
  <1> QED
    BY <1>1 DEF Removed, Private, Public

LEMMA FilesPut ==
  ASSUME NEW path, NEW content, path \notin DOMAIN files, Put(path, content)
  PROVE  /\ DOMAIN files' = DOMAIN files \cup {path}
         /\ files'[path] = content
         /\ \A p \in DOMAIN files : files'[p] = files[p]
  BY DEF Put

LEMMA FilesLinkedPrivate ==
  ASSUME NEW k, PrivatePath \notin DOMAIN files, Put(PrivatePath, <<"private", k>>)
  PROVE  LinkedPrivate(k)
  BY FilesPut DEF LinkedPrivate, Private, Public

LEMMA FilesLinkedPublic ==
  ASSUME NEW r \in Roots, NEW k, PublicPath(r, k) \notin DOMAIN files,
         Put(PublicPath(r, k), <<"public", k>>)
  PROVE  LinkedPublic(r, k)
  <1>1. /\ DOMAIN files' = DOMAIN files \cup {PublicPath(r, k)}
        /\ files'[PublicPath(r, k)] = <<"public", k>>
        /\ \A p \in DOMAIN files : files'[p] = files[p]
    BY FilesPut
  <1>2. PublicPath(r, k)[2] = k /\ PublicPath(r, k) # PrivatePath
    BY NamesDiffer DEF PublicPath
  <1>3. Private' = Private
    BY <1>1, <1>2 DEF Private
  <1>4. Public' = Public \cup {PublicPath(r, k)}
    BY <1>1, <1>2 DEF Public
  <1> QED
    BY <1>3, <1>4 DEF LinkedPublic

----------------------------------------------------------------------------
(***************************************************************************)
(* The other generators notice of a step only what it does to the files.   *)
(***************************************************************************)
Bystander(h) ==
    /\ at'[h] = at[h] /\ key'[h] = key[h] /\ half'[h] = half[h] /\ temp'[h] = temp[h]
    /\ faults \in Nat /\ faults' \in Nat /\ faults <= faults'

LEMMA BystanderLocal ==
  ASSUME NEW h, Bystander(h)
  PROVE  /\ HasPrivate(h)' <=> HasPrivate(h)
         /\ Published(h)' <=> Published(h)
         /\ OwnKey(h) => OwnKey(h)'
         /\ InOrder(h) => InOrder(h)'
  <1>1. HasPrivate(h)' <=> HasPrivate(h)
    BY DEF Bystander, HasPrivate, Working
  <1>2. Published(h)' <=> Published(h)
    BY DEF Bystander, Published
  <1>3. ASSUME OwnKey(h) PROVE OwnKey(h)'
    <2>1. PICK n \in Nat : n <= faults + 1 /\ key[h] = <<h, n>>
      BY <1>3 DEF OwnKey
    <2>2. faults \in Nat /\ faults' \in Nat /\ faults <= faults' /\ key'[h] = key[h]
      BY DEF Bystander
    <2>3. n <= faults' + 1
      BY <2>1, <2>2
    <2> QED
      BY <2>1, <2>2, <2>3 DEF OwnKey
  <1>4. InOrder(h) => InOrder(h)'
    BY DEF Bystander, InOrder
  <1> QED
    BY <1>1, <1>2, <1>3, <1>4

LEMMA BystanderSame ==
  ASSUME NEW h, Bystander(h), Each(h), SameFiles
  PROVE  Each(h)'
  <1>1. OwnKey(h)' /\ InOrder(h)'
    BY BystanderLocal DEF Each
  <1>2. AtWork(h)'
    BY BystanderLocal
    DEF Each, AtWork, Bystander, SameFiles, PrivateIs, IsTrusted, Working
  <1>3. Finished(h)'
    BY DEF Each, Finished, Bystander, SameFiles, PrivateIs, IsTrusted
  <1>4. Fresh(h)'
    BY BystanderLocal DEF Each, Fresh, Bystander, SameFiles, PrivateIs, IsTrusted
  <1> QED
    BY <1>1, <1>2, <1>3, <1>4 DEF Each

LEMMA NoKey == \A k : << >> # <<"private", k>>
  BY DOMAIN << >> = {}, \A k : DOMAIN <<"private", k>> = 1..2

LEMMA BystanderRemoved ==
  ASSUME NEW h, Bystander(h), Each(h), Usable, Removed, NEW k,
         PrivateIs(k), ~IsTrusted(k), key[h] = k => ~HasPrivate(h) /\ at[h] # "done"
  PROVE  Each(h)'
  <1>1. \A l : ~PrivateIs(l)' /\ (IsTrusted(l)' <=> IsTrusted(l)) /\ ~IsTrusted(l)
    BY NoKey DEF Removed, PrivateIs, IsTrusted, Usable
  <1>2. ~HasPrivate(h) /\ at[h] # "done"
    BY DEF Each, AtWork, Finished, HasPrivate, PrivateIs
  <1>3. OwnKey(h)' /\ InOrder(h)'
    BY BystanderLocal DEF Each
  <1>4. AtWork(h)'
    <2>1. ~Published(h)
      BY <1>2 DEF Published, HasPrivate, Working
    <2> QED
      BY <1>1, <1>2, <2>1, BystanderLocal DEF AtWork, PrivateIs, IsTrusted, Removed
  <1>5. Finished(h)'
    BY <1>1, <1>2 DEF Finished, Bystander, PrivateIs
  <1>6. Fresh(h)'
    BY <1>1 DEF Fresh, PrivateIs, IsTrusted
  <1> QED
    BY <1>3, <1>4, <1>5, <1>6 DEF Each

LEMMA BystanderLinkedPrivate ==
  ASSUME NEW h, Bystander(h), Each(h), Usable, NEW k, LinkedPrivate(k),
         \A n : k # <<h, n>>
  PROVE  Each(h)'
  <1>1. key[h] # k /\ key'[h] = key[h]
    BY DEF Each, OwnKey, Bystander
  <1>2. \A l : ~PrivateIs(l) /\ ~IsTrusted(l)
    BY NoKey DEF LinkedPrivate, PrivateIs, Usable
  <1>3. \A l : (Private' = <<"private", l>> <=> l = k) /\ Public' = Public
    BY DEF LinkedPrivate
  <1>4. OwnKey(h)' /\ InOrder(h)'
    BY BystanderLocal DEF Each
  <1>5. ~HasPrivate(h) /\ ~Published(h) /\ at[h] # "done"
    BY <1>2 DEF Each, AtWork, Finished, HasPrivate, Published, Working
  <1>6. AtWork(h)'
    BY <1>1, <1>2, <1>3, <1>5, BystanderLocal DEF AtWork, PrivateIs, IsTrusted
  <1>7. Finished(h)'
    BY <1>1, <1>3, <1>5 DEF Finished, Bystander, PrivateIs
  <1>8. Fresh(h)'
    BY <1>2, <1>3 DEF Fresh, PrivateIs, IsTrusted
  <1> QED
    BY <1>4, <1>6, <1>7, <1>8 DEF Each

LEMMA BystanderLinkedPublic ==
  ASSUME NEW h, Bystander(h), Each(h), NEW r, NEW k, LinkedPublic(r, k),
         \A n : k # <<h, n>>
  PROVE  Each(h)'
  <1>1. key[h] # k /\ key'[h] = key[h]
    BY DEF Each, OwnKey, Bystander
  <1>2. \A s, l : PublicPath(s, l) \in Public' <=> PublicPath(s, l) \in Public \/ (s = r /\ l = k)
    BY NamesOfKeys DEF LinkedPublic
  <1>3. Private' = Private
    BY DEF LinkedPublic
  <1>4. OwnKey(h)' /\ InOrder(h)'
    BY BystanderLocal DEF Each
  <1>5. AtWork(h)'
    BY <1>1, <1>2, <1>3, BystanderLocal
    DEF Each, AtWork, Bystander, PrivateIs, IsTrusted, Working
  <1>6. Finished(h)'
    BY <1>1, <1>2, <1>3 DEF Each, Finished, Bystander, PrivateIs, IsTrusted
  <1>7. Fresh(h)'
    BY <1>1, <1>2, <1>3, BystanderLocal DEF Each, Fresh, Bystander, PrivateIs, IsTrusted
  <1> QED
    BY <1>4, <1>5, <1>6, <1>7 DEF Each

----------------------------------------------------------------------------
(***************************************************************************)
(* A step of a generator that leaves the key files alone.                  *)
(***************************************************************************)
OthersOf(g) == \A h \in Generators \ {g} : Bystander(h)

LEMMA QuietStep ==
  ASSUME KeygenInv, NEW g \in Generators, UNCHANGED files, OthersOf(g),
         KeygenType', Each(g)'
  PROVE  KeygenInv'
  <1>1. SameFiles
    BY FilesSame
  <1>2. \A h \in Generators : Each(h)'
    BY <1>1, BystanderSame DEF OthersOf, KeygenInv
  <1>3. Usable'
    BY <1>1 DEF KeygenInv, Usable, SameFiles, PrivateIs, IsTrusted
  <1> QED
    BY <1>2, <1>3 DEF KeygenInv

\* What a quiet step must not disturb of its own generator.
Steady(g) ==
    /\ at[g] \in Working /\ key'[g] = key[g] /\ faults' = faults
    /\ at'[g] \in Working => (HasPrivate(g)' <=> HasPrivate(g))
    /\ HasPrivate(g) => HasPrivate(g)' \/ at'[g] = "done"
    /\ Published(g)' <=> Published(g)
    /\ at'[g] = "done" => HasPrivate(g)
    /\ at'[g] = "failed" => ~HasPrivate(g)

LEMMA OwnStep ==
  ASSUME NEW g, Each(g), SameFiles, Steady(g), InOrder(g)'
  PROVE  Each(g)'
  <1>1. OwnKey(g)'
    BY DEF Each, OwnKey, Steady
  <1>2. AtWork(g)'
    BY DEF Each, AtWork, Steady, SameFiles, PrivateIs, IsTrusted
  <1>3. Finished(g)'
    BY DEF Each, AtWork, Finished, Steady, SameFiles, PrivateIs, IsTrusted
  <1>4. Fresh(g)'
    <2>1. at[g] # "done"
      BY DEF Steady, Working
    <2> QED
      BY <2>1 DEF Each, Fresh, Steady, SameFiles, PrivateIs, IsTrusted
  <1> QED
    BY <1>1, <1>2, <1>3, <1>4 DEF Each

LEMMA QuietSteps ==
  ASSUME KeygenInv, NEW g \in Generators,
         \/ LstatRoot(g) \/ MkdirAll(g) \/ InspectRoleDir(g) \/ CreateTemp(g)
         \/ WriteTemp(g) \/ RemoveTemp(g) \/ UndoTemp(g) \/ ReportKeys(g)
         \/ LinkFile(g) /\ Path(g) \in DOMAIN files
  PROVE  KeygenInv'
  <1> USE DEF KeygenInv
  <1>1. UNCHANGED files
    BY DEF LstatRoot, MkdirAll, InspectRoleDir, CreateTemp, WriteTemp, RemoveTemp,
           UndoTemp, ReportKeys, LinkFile
  <1>2. OthersOf(g)
    BY DEF OthersOf, Bystander, KeygenType, Moves, LstatRoot, MkdirAll, InspectRoleDir,
           CreateTemp, WriteTemp, RemoveTemp, UndoTemp, ReportKeys, LinkFile
  <1>3. KeygenType'
    BY DEF KeygenType, Moves, LstatRoot, MkdirAll, InspectRoleDir, Working,
           CreateTemp, WriteTemp, RemoveTemp, UndoTemp, ReportKeys, LinkFile
  <1>4. InOrder(g) /\ half[g] \in {"private", "public"}
    BY DEF Each, KeygenType
  <1>5. Steady(g) /\ InOrder(g)'
    <2> USE DEF Steady, Moves, InOrder, HasPrivate, Published, Working
    <2>1. CASE LstatRoot(g) BY <2>1, <1>4 DEF LstatRoot, KeygenType
    <2>2. CASE MkdirAll(g) BY <2>2, <1>4 DEF MkdirAll, KeygenType
    <2>3. CASE InspectRoleDir(g) BY <2>3, <1>4 DEF InspectRoleDir, KeygenType
    <2>4. CASE CreateTemp(g) BY <2>4, <1>4 DEF CreateTemp, KeygenType
    <2>5. CASE WriteTemp(g) BY <2>5, <1>4 DEF WriteTemp, KeygenType
    <2>6. CASE RemoveTemp(g) BY <2>6, <1>4 DEF RemoveTemp, KeygenType
    <2>7. CASE UndoTemp(g) BY <2>7, <1>4 DEF UndoTemp, KeygenType
    <2>8. CASE ReportKeys(g) BY <2>8, <1>4 DEF ReportKeys, KeygenType
    <2>9. CASE LinkFile(g) /\ Path(g) \in DOMAIN files
      BY <2>9, <1>4 DEF LinkFile, KeygenType
    <2> QED
      BY <2>1, <2>2, <2>3, <2>4, <2>5, <2>6, <2>7, <2>8, <2>9
  <1> QED
    BY <1>1, <1>2, <1>3, <1>5, FilesSame, OwnStep, QuietStep

(***************************************************************************)
(* Failures and repetitions: the key files stay, and a new number is used. *)
(***************************************************************************)
LEMMA OwnInterrupted ==
  ASSUME NEW g, Each(g), SameFiles, faults \in Nat, faults' = faults + 1,
         at[g] \in Working, key'[g] = key[g], Published(g)' => Published(g),
         at'[g] \in Working => (HasPrivate(g)' <=> HasPrivate(g)) /\ (Published(g)' <=> Published(g)),
         at'[g] # "done", at'[g] = "failed" /\ HasPrivate(g) => Published(g),
         InOrder(g)'
  PROVE  Each(g)'
  <1>1. PICK n \in Nat : n <= faults + 1 /\ key[g] = <<g, n>>
    BY DEF Each, OwnKey
  <1>2. OwnKey(g)'
    <2>1. faults' \in Nat /\ n <= faults' + 1
      BY <1>1
    <2> QED
      BY <1>1, <2>1 DEF OwnKey
  <1>3. AtWork(g)'
    BY DEF Each, AtWork, SameFiles, PrivateIs, IsTrusted
  <1>4. Finished(g)'
    BY DEF Each, AtWork, Finished, SameFiles, PrivateIs, IsTrusted
  <1>5. Fresh(g)'
    <2> SUFFICES ASSUME NEW m \in Nat, m > faults'
                 PROVE  ~PrivateIs(<<g, m>>)' /\ ~IsTrusted(<<g, m>>)'
      BY DEF Fresh, PrivateIs, IsTrusted
    <2>1. m > faults /\ m # n
      BY <1>1
    <2>2. ~PrivateIs(<<g, m>>) /\ ~IsTrusted(<<g, m>>)
      BY <1>1, <2>1 DEF Each, Fresh
    <2> QED
      BY <2>2 DEF SameFiles, PrivateIs, IsTrusted
  <1> QED
    BY <1>2, <1>3, <1>4, <1>5 DEF Each

LEMMA FailureSteps ==
  ASSUME KeygenInv, NEW g \in Generators, StepFails(g) \/ Crash(g)
  PROVE  KeygenInv'
  <1> USE DEF KeygenInv
  <1>1. UNCHANGED files /\ faults' = faults + 1 /\ key' = key /\ half' = half /\ temp' = temp
    BY DEF StepFails, Crash
  <1>2. OthersOf(g)
    BY DEF OthersOf, Bystander, KeygenType, StepFails, Crash
  <1>3. KeygenType'
    BY DEF KeygenType, StepFails, Crash, Working
  <1>4. Each(g) /\ half[g] \in {"private", "public"} /\ faults \in Nat /\ at[g] \in Working
    BY DEF KeygenType, StepFails, Crash
  <1>5. at'[g] = "crashed" \/
        /\ at[g] \notin {"unlink", "undo"}
        /\ at'[g] = IF at[g] \in {"create", "write", "link"} THEN "undo"
                    ELSE IF at[g] = "cleanup" THEN "stranded" ELSE "failed"
    BY DEF StepFails, Crash, KeygenType
  <1>6. InOrder(g)
    BY <1>4 DEF Each
  <1>7. InOrder(g)'
    BY <1>1, <1>5, <1>6 DEF InOrder
  <1>8. /\ Published(g)' => Published(g)
        /\ at'[g] \in Working => (HasPrivate(g)' <=> HasPrivate(g)) /\ (Published(g)' <=> Published(g))
        /\ at'[g] # "done"
        /\ at'[g] = "failed" /\ HasPrivate(g) => Published(g)
    BY <1>1, <1>4, <1>5, <1>6 DEF Published, HasPrivate, InOrder, Working
  <1>9. Each(g)'
    BY <1>1, <1>4, <1>7, <1>8, FilesSame, OwnInterrupted
  <1> QED
    BY <1>1, <1>2, <1>3, <1>9, QuietStep

LEMMA RetrySteps ==
  ASSUME KeygenInv, NEW g \in Generators, Retry(g)
  PROVE  KeygenInv'
  <1> USE DEF KeygenInv
  <1>1. /\ UNCHANGED files /\ faults' = faults /\ at'[g] = "lstat" /\ half'[g] = "private"
        /\ key'[g] = <<g, faults + 1>>
    BY DEF Retry, KeygenType
  <1>2. OthersOf(g)
    BY DEF OthersOf, Bystander, KeygenType, Retry
  <1>3. KeygenType'
    BY DEF KeygenType, Retry, Working
  <1>4. faults \in Nat /\ faults + 1 \in Nat /\ faults + 1 > faults /\ SameFiles
    BY <1>1, FilesSame DEF KeygenType
  <1>5. ~HasPrivate(g) /\ ~Published(g) /\ at[g] # "done"
    BY DEF Retry, HasPrivate, Published, Working
  <1>6. \A n \in Nat : n > faults => ~PrivateIs(<<g, n>>) /\ ~IsTrusted(<<g, n>>)
    BY <1>5 DEF Each, Fresh
  <1>7. \A n \in Nat : n > faults => ~PrivateIs(<<g, n>>)' /\ ~IsTrusted(<<g, n>>)'
    BY <1>4, <1>6 DEF SameFiles, PrivateIs, IsTrusted
  <1>8. ~HasPrivate(g)' /\ ~Published(g)'
    BY <1>1 DEF HasPrivate, Published
  <1>9. Each(g)'
    <2>1. OwnKey(g)'
      BY <1>1, <1>4 DEF OwnKey
    <2>2. ~PrivateIs(key[g])' /\ ~IsTrusted(key[g])'
      BY <1>1, <1>4, <1>7 DEF PrivateIs, IsTrusted
    <2>3. InOrder(g)' /\ Finished(g)'
      BY <1>1 DEF InOrder, Finished
    <2>4. AtWork(g)'
      BY <1>8, <2>2 DEF AtWork
    <2>5. Fresh(g)'
      BY <1>1, <1>7 DEF Fresh, PrivateIs, IsTrusted
    <2> QED
      BY <2>1, <2>3, <2>4, <2>5 DEF Each
  <1> QED
    BY <1>1, <1>2, <1>3, <1>9, QuietStep

LEMMA MendSteps ==
  ASSUME KeygenInv, NEW r \in Roots, MendRoot(r)
  PROVE  KeygenInv'
  <1>1. UNCHANGED <<at, key, half, temp, files, faults>>
    BY DEF MendRoot
  <1>2. SameFiles /\ KeygenType' /\ \A g \in Generators : Bystander(g)
    BY <1>1, FilesSame DEF KeygenInv, KeygenType, Bystander
  <1>3. \A g \in Generators : Each(g)'
    BY <1>2, BystanderSame DEF KeygenInv
  <1>4. Usable'
    BY <1>2 DEF KeygenInv, Usable, SameFiles, PrivateIs, IsTrusted
  <1> QED
    BY <1>2, <1>3, <1>4 DEF KeygenInv

(***************************************************************************)
(* The removals: what is removed is a private key that nobody trusts and   *)
(* that no other generator has.                                            *)
(***************************************************************************)
LEMMA NothingTrusted ==
  ASSUME Usable, Removed, NEW k, PrivateIs(k), ~IsTrusted(k)
  PROVE  Usable' /\ \A l : ~IsTrusted(l) /\ ~IsTrusted(l)' /\ ~PrivateIs(l)'
  <1>1. \A l : ~IsTrusted(l)
    BY DEF Usable, PrivateIs
  <1> QED
    BY <1>1, NoKey DEF Removed, Usable, PrivateIs, IsTrusted

LEMMA RemoveSteps ==
  ASSUME KeygenInv, NEW g \in Generators, RemovePrivate(g)
  PROVE  KeygenInv'
  <1> USE DEF KeygenInv
  <1>1. /\ at[g] = "cleanup" /\ at'[g] = "failed" /\ half'[g] = half[g]
        /\ key' = key /\ faults' = faults /\ Removed
    BY FilesRemoved DEF RemovePrivate, Moves, KeygenType
  <1>2. HasPrivate(g) /\ ~Published(g) /\ at[g] \in Working
    BY <1>1 DEF Each, InOrder, HasPrivate, Published, Working
  <1>3. PrivateIs(key[g]) /\ ~IsTrusted(key[g])
    BY <1>2 DEF Each, AtWork
  <1>4. Usable' /\ \A l : ~IsTrusted(l)' /\ ~PrivateIs(l)'
    BY <1>1, <1>3, NothingTrusted
  <1>5. KeygenType'
    BY DEF KeygenType, RemovePrivate, Moves
  <1>6. ASSUME NEW h \in Generators, h # g PROVE Each(h)'
    <2>1. Bystander(h)
      BY <1>6 DEF Bystander, KeygenType, RemovePrivate, Moves
    <2>2. key[h] # key[g]
      BY <1>6 DEF Each, OwnKey
    <2> QED
      BY <1>1, <1>3, <2>1, <2>2, BystanderRemoved
  <1>7. Each(g)'
    <2>1. OwnKey(g)'
      BY <1>1 DEF Each, OwnKey
    <2>2. InOrder(g)' /\ ~Published(g)'
      BY <1>1 DEF InOrder, Published
    <2>3. AtWork(g)'
      BY <1>1, <2>2 DEF AtWork, Working
    <2>4. Finished(g)'
      BY <1>1, <1>4 DEF Finished, PrivateIs
    <2>5. Fresh(g)'
      BY <1>4 DEF Fresh, PrivateIs, IsTrusted
    <2> QED
      BY <2>1, <2>2, <2>3, <2>4, <2>5 DEF Each
  <1> QED
    BY <1>4, <1>5, <1>6, <1>7

LEMMA ClearSteps ==
  ASSUME KeygenInv, ClearOrphan
  PROVE  KeygenInv'
  <1> USE DEF KeygenInv
  <1>1. Removed /\ UNCHANGED <<at, key, half, temp, faults>>
    BY FilesRemoved DEF ClearOrphan
  <1>2. PICK k \in Keys : PrivateIs(k) /\ ~IsTrusted(k) /\ ~MakerAtWork(k)
    BY PrivateHeld, TrustedHeld DEF ClearOrphan, Orphaned
  <1>3. Usable' /\ KeygenType'
    BY <1>1, <1>2, NothingTrusted DEF KeygenType
  <1>4. ASSUME NEW h \in Generators PROVE Each(h)'
    <2>1. Bystander(h)
      BY <1>1 DEF Bystander, KeygenType
    <2>2. key[h] = k => ~HasPrivate(h)
      BY <1>2 DEF MakerAtWork, HasPrivate
    <2>3. key[h] = k => at[h] # "done"
      <3> SUFFICES ASSUME key[h] = k, at[h] = "done" PROVE FALSE
        OBVIOUS
      <3>1. PublicPath(RootOf[h], key[h]) \in Public
        BY DEF Each, InOrder, AtWork, Published
      <3> QED
        BY <1>2, <3>1, GeneratorsAssumption DEF IsTrusted
    <2> QED
      BY <1>1, <1>2, <2>1, <2>2, <2>3, BystanderRemoved
  <1> QED
    BY <1>3, <1>4

(***************************************************************************)
(* The links: the private name was free, so nobody had a key there and     *)
(* nothing was trusted; the public half follows its own private half.      *)
(***************************************************************************)
LEMMA LinkPrivateSteps ==
  ASSUME KeygenInv, NEW g \in Generators, LinkFile(g), Path(g) \notin DOMAIN files,
         half[g] = "private"
  PROVE  KeygenInv'
  <1> USE DEF KeygenInv
  <1>1. /\ at[g] = "link" /\ at'[g] = "unlink" /\ half' = half
        /\ key' = key /\ temp' = temp /\ faults' = faults
    BY DEF LinkFile, Moves, KeygenType
  <1>2. LinkedPrivate(key[g])
    <2>1. temp[g][1] = <<"private", key[g]>>
      BY <1>1 DEF Each, InOrder
    <2> QED
      BY <2>1, FilesLinkedPrivate DEF LinkFile, Path
  <1>3. \A l : ~PrivateIs(l) /\ ~IsTrusted(l)
    BY <1>2, NoKey DEF LinkedPrivate, PrivateIs, Usable
  <1>4. \A l : (PrivateIs(l)' <=> Private' = <<"private", l>>) /\ ~IsTrusted(l)'
    BY <1>2, <1>3 DEF LinkedPrivate, PrivateIs, IsTrusted
  <1>5. Private' = <<"private", key[g]>>
    BY <1>2 DEF LinkedPrivate
  <1>6. KeygenType'
    BY DEF KeygenType, LinkFile, Moves, Working
  <1>7. Usable'
    BY <1>4 DEF Usable
  <1>8. ASSUME NEW h \in Generators, h # g PROVE Each(h)'
    <2>1. Bystander(h)
      BY <1>8 DEF Bystander, KeygenType, LinkFile, Moves
    <2>2. \A n : key[g] # <<h, n>>
      BY <1>8 DEF Each, OwnKey
    <2> QED
      BY <1>2, <2>1, <2>2, BystanderLinkedPrivate
  <1>9. Each(g)'
    <2>1. OwnKey(g)'
      BY <1>1 DEF Each, OwnKey
    <2>2. InOrder(g)' /\ Finished(g)'
      BY <1>1 DEF InOrder, Finished
    <2>3. HasPrivate(g)' /\ ~Published(g)'
      BY <1>1 DEF HasPrivate, Published, Working
    <2>4. AtWork(g)'
      BY <1>1, <1>4, <1>5, <2>3 DEF AtWork, PrivateIs, IsTrusted
    <2>5. Fresh(g)'
      BY <1>1, <1>4, <1>5, <2>3 DEF Fresh, PrivateIs, IsTrusted
    <2> QED
      BY <2>1, <2>2, <2>4, <2>5 DEF Each
  <1> QED
    BY <1>6, <1>7, <1>8, <1>9

LEMMA LinkPublicSteps ==
  ASSUME KeygenInv, NEW g \in Generators, LinkFile(g), Path(g) \notin DOMAIN files,
         half[g] = "public"
  PROVE  KeygenInv'
  <1> USE DEF KeygenInv
  <1>1. /\ at[g] = "link" /\ at'[g] = "unlink" /\ half' = half
        /\ key' = key /\ temp' = temp /\ faults' = faults /\ RootOf[g] \in Roots
    BY GeneratorsAssumption DEF LinkFile, Moves, KeygenType
  <1>2. LinkedPublic(RootOf[g], key[g])
    <2>1. temp[g][1] = <<"public", key[g]>>
      BY <1>1 DEF Each, InOrder
    <2> QED
      BY <1>1, <2>1, FilesLinkedPublic DEF LinkFile, Path
  <1>3. Private' = Private /\ PrivateIs(key[g])
    BY <1>1, <1>2 DEF LinkedPublic, Each, AtWork, HasPrivate, Working
  <1>4. \A s, l : PublicPath(s, l) \in Public' <=>
                    PublicPath(s, l) \in Public \/ (s = RootOf[g] /\ l = key[g])
    BY <1>2, NamesOfKeys DEF LinkedPublic
  <1>5. KeygenType'
    BY DEF KeygenType, LinkFile, Moves, Working
  <1>6. Usable'
    BY <1>3, <1>4 DEF Usable, PrivateIs, IsTrusted
  <1>7. ASSUME NEW h \in Generators, h # g PROVE Each(h)'
    <2>1. Bystander(h)
      BY <1>7 DEF Bystander, KeygenType, LinkFile, Moves
    <2>2. \A n : key[g] # <<h, n>>
      BY <1>7 DEF Each, OwnKey
    <2> QED
      BY <1>2, <2>1, <2>2, BystanderLinkedPublic
  <1>8. Each(g)'
    <2>1. OwnKey(g)'
      BY <1>1 DEF Each, OwnKey
    <2>2. InOrder(g)' /\ Finished(g)'
      BY <1>1 DEF InOrder, Finished
    <2>3. HasPrivate(g)' /\ Published(g)' /\ HasPrivate(g) /\ at[g] # "done"
      BY <1>1 DEF HasPrivate, Published, Working
    <2>4. PublicPath(RootOf[g], key[g]) \in Public'
      BY <1>4
    <2>5. AtWork(g)'
      BY <1>1, <1>3, <2>3, <2>4 DEF AtWork, PrivateIs, IsTrusted
    <2>6. Fresh(g)'
      BY <1>1, <1>3, <1>4, <2>3 DEF Each, Fresh, PrivateIs, IsTrusted
    <2> QED
      BY <2>1, <2>2, <2>5, <2>6 DEF Each
  <1> QED
    BY <1>5, <1>6, <1>7, <1>8

----------------------------------------------------------------------------
(***************************************************************************)
(* The invariant.                                                          *)
(***************************************************************************)
LEMMA InvInit == ASSUME KeygenInit PROVE KeygenInv
  <1>1. PICK taken \in SUBSET {PublicPath(RootOf[g], <<g, 0>>) : g \in Generators} :
          files = [p \in taken |-> <<"other">>]
    BY DEF KeygenInit
  <1>2. \A p \in taken : p # PrivatePath
    BY NamesDiffer, GeneratorsAssumption
  <1>3. Private = << >>
    BY <1>1, <1>2 DEF Private
  <1>4. Public = {}
    <2>1. \A x : <<"other">> # <<"public", x>>
      <3> SUFFICES ASSUME NEW x, <<"other">> = <<"public", x>> PROVE FALSE
        OBVIOUS
      <3>1. <<"other">>[1] = <<"public", x>>[1]
        OBVIOUS
      <3> QED
        BY <3>1
    <2> QED
      BY <1>1, <2>1 DEF Public
  <1>5. \A k : ~PrivateIs(k) /\ ~IsTrusted(k)
    BY <1>3, <1>4, NoKey DEF PrivateIs, IsTrusted
  <1>6. KeygenType
    BY DEF KeygenInit, KeygenType, Working
  <1>7. ASSUME NEW g \in Generators PROVE Each(g)
    <2>1. at[g] = "lstat" /\ half[g] = "private" /\ key[g] = <<g, 0>> /\ faults = 0
      BY DEF KeygenInit
    <2>2. OwnKey(g)
      BY <2>1 DEF OwnKey
    <2>3. InOrder(g) /\ AtWork(g) /\ Finished(g) /\ Fresh(g)
      BY <1>5, <2>1 DEF InOrder, AtWork, Finished, Fresh, HasPrivate, Published
    <2> QED
      BY <2>2, <2>3 DEF Each
  <1> QED
    BY <1>5, <1>6, <1>7 DEF KeygenInv, Usable

LEMMA InvNext == ASSUME KeygenInv, KeygenNext PROVE KeygenInv'
  <1>1. ASSUME NEW g \in Generators, Step(g) PROVE KeygenInv'
    <2>1. CASE LinkFile(g)
      <3>1. half[g] \in {"private", "public"}
        BY DEF KeygenInv, KeygenType
      <3> QED
        BY <2>1, <3>1, QuietSteps, LinkPrivateSteps, LinkPublicSteps
    <2> QED
      BY <1>1, <2>1, QuietSteps, RemoveSteps DEF Step
  <1> QED
    BY <1>1, FailureSteps, RetrySteps, MendSteps, ClearSteps DEF KeygenNext

LEMMA InvStutter == ASSUME KeygenInv, UNCHANGED keygenVars PROVE KeygenInv'
  <1>1. UNCHANGED <<at, key, half, temp, files, faults>>
    BY DEF keygenVars
  <1>2. SameFiles /\ KeygenType' /\ \A g \in Generators : Bystander(g)
    BY <1>1, FilesSame DEF KeygenInv, KeygenType, Bystander
  <1>3. \A g \in Generators : Each(g)'
    BY <1>2, BystanderSame DEF KeygenInv
  <1>4. Usable'
    BY <1>2 DEF KeygenInv, Usable, SameFiles, PrivateIs, IsTrusted
  <1> QED
    BY <1>2, <1>3, <1>4 DEF KeygenInv

(***************************************************************************)
(* Key generation keeps the invariant (keygen.go 60-167).                  *)
(***************************************************************************)
THEOREM KeygenInvHolds == KeygenSpec => []KeygenInv
  BY InvInit, InvNext, InvStutter, PTL DEF KeygenSpec

(***************************************************************************)
(* A generator that exited 0 keeps both halves of its key where it said    *)
(* they are (keygen.go 49-58, 102-106), however many generators and trust  *)
(* roots there are and whatever fails.                                     *)
(***************************************************************************)
THEOREM KeysKeptHolds == KeygenSpec => []KeysKept
  <1>1. KeygenInv => KeysKept
    <2> SUFFICES ASSUME KeygenInv, NEW g \in Generators, at[g] = "done"
                 PROVE  /\ Holds(PrivatePath, <<"private", key[g]>>)
                        /\ Holds(PublicPath(RootOf[g], key[g]), <<"public", key[g]>>)
      BY DEF KeysKept
    <2>1. PrivateIs(key[g])
      BY DEF KeygenInv, Each, Finished
    <2>2. PublicPath(RootOf[g], key[g]) \in Public
      BY DEF KeygenInv, Each, InOrder, AtWork, Published
    <2> QED
      BY <2>1, <2>2, PrivateHeld, PublicHeld, GeneratorsAssumption
  <1> QED
    BY <1>1, KeygenInvHolds, PTL

(***************************************************************************)
(* A trusted key always has its private half at hand: the order of the two *)
(* links and of the cleanup (keygen.go 96-107).                            *)
(***************************************************************************)
THEOREM TrustedUsableHolds == KeygenSpec => []TrustedUsable
  <1>1. KeygenInv => TrustedUsable
    BY PrivateHeld, TrustedHeld DEF KeygenInv, Usable, TrustedUsable
  <1> QED
    BY <1>1, KeygenInvHolds, PTL

(***************************************************************************)
(* A generation that reports a plain error leaves no private key of its    *)
(* own that nobody trusts (keygen.go 101-107).                             *)
(***************************************************************************)
THEOREM FailureLeavesNoKeyHolds == KeygenSpec => []FailureLeavesNoKey
  <1>1. KeygenInv => FailureLeavesNoKey
    BY PrivateHeld, TrustedHeld DEF KeygenInv, Each, Finished, FailureLeavesNoKey
  <1> QED
    BY <1>1, KeygenInvHolds, PTL
=============================================================================
