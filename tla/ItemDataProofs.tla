--------------------------- MODULE ItemDataProofs ---------------------------
(***************************************************************************)
(* Theorems about ItemData, for any families of the recipes, any pools,    *)
(* requests, limits and any number of versions, prepares and runs: a run   *)
(* uses what its manifest lists, a prepare that exits with 0 lists what it *)
(* built, nothing is listed that holds an item twice, no entry is lost or  *)
(* changed by a failure, items of the pinned source are pinned, and a plan *)
(* is a fair merge of the items that were loaded.                          *)
(***************************************************************************)
EXTENDS ItemData, FiniteSetTheorems, SequenceTheorems, WellFoundedInduction, TLAPS

(* The records are records and the functions have all families.            *)
PrepRecord ==
    prep = [pc |-> prep.pc, only |-> prep.only, opts |-> prep.opts,
            mem |-> prep.mem, fam |-> prep.fam, step |-> prep.step,
            got |-> prep.got, failed |-> prep.failed]
RunRecord ==
    run = [pc |-> run.pc, limit |-> run.limit, seen |-> run.seen, fams |-> run.fams,
           fam |-> run.fam, used |-> run.used, disturbed |-> run.disturbed,
           loaded |-> run.loaded, plan |-> run.plan,
           header |-> run.header, turned |-> run.turned]
Listing(m) == /\ m = [built |-> m.built, items |-> m.items]
              /\ m.items = [f \in Family |-> m.items[f]]
Stores ==
    /\ PrepRecord /\ RunRecord
    /\ Listing(manifest) /\ Listing(prep.mem)
    /\ file = [f \in Family |-> file[f]]
    /\ run.used = [f \in Family |-> run.used[f]]
    /\ run.header = [f \in Family |-> run.header[f]]

(* Where the loops over the families stand.                                *)
PrepPlace ==
    /\ prep.failed \in BOOLEAN
    /\ prep.fam \in Nat \ {0}
    /\ prep.only \in Seq(Family)
    /\ Preparing => IsInjective(prep.only)
    /\ prep.pc \in {"fetch", "digest", "write", "list"} => prep.fam <= Len(prep.only)
    /\ prep.pc = "save" => prep.fam = Len(prep.only) + 1
    /\ prep.pc = "list" => file[Fam] # None
RunPlace ==
    run.pc \in {"check", "load"} =>
        run.fams \in Seq(Family) /\ run.fam \in 1..Len(run.fams)

(* What the manifest in the memory of a prepare is made of: the entries it *)
(* found and those of the families that went well, in front of the present *)
(* one.                                                                    *)
Passed == {prep.only[i] : i \in {j \in 1..Len(prep.only) : j < prep.fam}}
MemAsBuilt ==
    Preparing => \A f \in Family :
        /\ f \notin Passed => prep.mem.items[f] = manifest.items[f]
        /\ \/ prep.mem.items[f] = manifest.items[f]
           \/ prep.mem.items[f] = file[f] /\ file[f] # None
        /\ f \in Passed /\ ~prep.failed =>
              prep.mem.items[f] = file[f] /\ file[f] # None

(* Nothing that is listed, or about to be, holds an item twice.            *)
ListedOnce == \A f \in Family :
    ~manifest.items[f].twice /\ ~prep.mem.items[f].twice /\ ~run.seen.items[f].twice

(* What a run has compared it is about to load, unless it was replaced.    *)
Pending ==
    run.pc = "load" /\ run.seen.items[Asked] # None =>
        file[Asked] = run.seen.items[Asked] \/ Asked \in run.disturbed

(* A header is read last, from the file the items came from, if it is      *)
(* still there.                                                            *)
HeaderLast == \A f \in Family :
    /\ run.header[f] # None => run.pc = "planned"
    /\ HeaderUnread(f) => file[f] = run.used[f] \/ f \in run.turned

WholeOnce == \A f \in Family : run.used[f].twice => run.limit # NoLimit

PrepInv == PrepPlace /\ MemAsBuilt /\ FinishedIsListed
RunInv  == RunPlace /\ Pending /\ RunUsesListed /\ WholeOnce /\ HeaderLast
IInv    == Stores /\ PrepInv /\ ListedOnce /\ RunInv

-----------------------------------------------------------------------------
LEMMA FamilyHasFiles == ASSUME NEW f \in Family PROVE Names[f] # {}
<1>1. f \in DOMAIN Recipe
  BY DataAssumption
<1>2. Recipe[f] \in {LongctxFiles, IfevalFiles, ToolsFiles, MathFiles,
                     KnowledgeFiles, CodeFiles}
  BY <1>1 DEF Recipe
<1>3. \A x, y, z, w : /\ Len(<<x>>) = 1 /\ Len(<<x, y>>) = 2
                     /\ Len(<<x, y, z>>) = 3 /\ Len(<<x, y, z, w>>) = 4
  OBVIOUS
<1>4. Len(Recipe[f]) \in 1..4
  BY <1>2, <1>3 DEF LongctxFiles, IfevalFiles, ToolsFiles, MathFiles,
              KnowledgeFiles, CodeFiles
<1>5. Recipe[f][1].name \in Names[f]
  BY <1>1, <1>4 DEF Names
<1> QED
  BY <1>5

LEMMA InitIInv == Init => IInv
<1> SUFFICES ASSUME Init PROVE IInv
  OBVIOUS
<1> USE DEF Init, NoPrep, NoRun, NoManifest, None
<1>1. Stores
  BY DEF Stores, PrepRecord, RunRecord, Listing
<1>2. PrepInv
  BY DEF PrepInv, PrepPlace, MemAsBuilt, FinishedIsListed, Preparing
<1>3. ListedOnce
  BY DEF ListedOnce
<1>4. RunInv
  BY DEF RunInv, RunPlace, Pending, RunUsesListed, WholeOnce, HeaderLast, HeaderUnread
<1> QED
  BY <1>1, <1>2, <1>3, <1>4 DEF IInv

(* A prepare goes on reading files, or gives up the present family.        *)
Reads(p) == \/ p = [prep EXCEPT !.pc = "digest"]
            \/ p = Fails(prep)
            \/ \E got : p = After(got)

LEMMA ReadInv ==
    ASSUME IInv, prep.pc \in {"fetch", "digest", "list"}, Reads(prep'),
           prep.pc = "list" => prep' = Fails(prep),
           UNCHANGED <<file, manifest, run>>
    PROVE  IInv'
<1> USE DEF IInv, Stores, PrepInv
<1>1. /\ PrepRecord'
      /\ prep'.mem = prep.mem /\ prep'.only = prep.only
      /\ prep'.pc \in {"fetch", "digest", "write", "save"}
      /\ \/ prep'.fam = prep.fam /\ prep'.failed = prep.failed
            /\ prep'.pc \in {"fetch", "digest", "write"}
         \/ /\ prep'.fam = prep.fam + 1 /\ prep'.failed = TRUE
            /\ prep'.pc = IF prep.fam = Len(prep.only) THEN "save" ELSE "fetch"
  <2>1. CASE prep' = [prep EXCEPT !.pc = "digest"]
    BY <2>1 DEF PrepRecord
  <2>2. CASE prep' = Fails(prep)
    BY <2>2 DEF PrepRecord, Fails, Following, PrepPlace
  <2>3. ASSUME NEW got, prep' = After(got)
        PROVE  /\ PrepRecord' /\ prep'.mem = prep.mem /\ prep'.only = prep.only
               /\ prep'.fam = prep.fam /\ prep'.failed = prep.failed
               /\ prep'.pc \in {"write", "fetch"}
    BY <2>3 DEF PrepRecord, After
  <2> QED
    BY <2>1, <2>2, <2>3 DEF Reads
<1>2. PrepPlace'
  <2>1. /\ prep.failed \in BOOLEAN /\ prep.fam \in Nat \ {0}
        /\ prep.only \in Seq(Family) /\ Len(prep.only) \in Nat
        /\ IsInjective(prep.only) /\ prep.fam <= Len(prep.only)
    BY DEF PrepPlace, Preparing
  <2>2. /\ prep'.failed \in BOOLEAN /\ prep'.fam \in Nat \ {0}
        /\ prep'.pc \in {"fetch", "digest", "write"} => prep'.fam <= Len(prep.only)
        /\ prep'.pc = "save" => prep'.fam = Len(prep.only) + 1
    <3>1. CASE prep'.fam = prep.fam /\ prep'.failed = prep.failed
               /\ prep'.pc \in {"fetch", "digest", "write"}
      BY <2>1, <3>1
    <3>2. CASE /\ prep'.fam = prep.fam + 1 /\ prep'.failed = TRUE
               /\ prep'.pc = IF prep.fam = Len(prep.only) THEN "save" ELSE "fetch"
      <4>1. prep'.failed \in BOOLEAN
        BY <3>2
      <4>2. CASE prep.fam = Len(prep.only)
        BY <2>1, <3>2, <4>1, <4>2
      <4>3. CASE prep.fam # Len(prep.only)
        <5>1. prep.fam + 1 <= Len(prep.only)
          BY <2>1, <4>3
        <5> QED
          BY <2>1, <3>2, <4>1, <4>3, <5>1
      <4> QED
        BY <4>2, <4>3
    <3> QED
      BY <1>1, <3>1, <3>2
  <2> QED
    BY <1>1, <2>1, <2>2 DEF PrepPlace
<1>3. MemAsBuilt'
  BY <1>1 DEF MemAsBuilt, PrepPlace, Preparing, Passed
<1>4. FinishedIsListed'
  BY <1>1 DEF FinishedIsListed
<1>5. Stores' /\ ListedOnce' /\ RunInv'
  BY <1>1 DEF Listing, RunRecord, ListedOnce, RunInv, RunPlace, Pending, Asked,
              RunUsesListed, WholeOnce, HeaderLast, HeaderUnread
<1> QED
  BY <1>2, <1>3, <1>4, <1>5

LEMMA StartPrepareInv == ASSUME IInv, StartPrepare PROVE IInv'
<1> USE DEF IInv, Stores, PrepInv
<1>1. PICK only \in Requests, opts \in Options :
          prep' = [NoPrep EXCEPT !.pc = "fetch", !.only = only, !.opts = opts,
                    !.mem = [manifest EXCEPT !.built = prepares + 1]]
  BY DEF StartPrepare, OldManifest
<1>2. only \in Seq(Family) /\ only # <<>> /\ IsInjective(only) /\ Len(only) \in Nat \ {0}
  BY DataAssumption
<1>3. /\ PrepRecord' /\ prep'.pc = "fetch" /\ prep'.only = only /\ prep'.fam = 1
      /\ prep'.failed = FALSE
      /\ prep'.mem.items = manifest.items /\ Listing(prep'.mem)
  BY <1>1 DEF PrepRecord, NoPrep, Listing
<1>4. UNCHANGED <<file, manifest, run>>
  BY DEF StartPrepare
<1>5. PrepPlace'
  <2>1. 1 <= Len(only) /\ 1 \in Nat \ {0}
    BY <1>2
  <2>2. prep'.failed \in BOOLEAN /\ IsInjective(prep'.only)
    BY <1>2, <1>3
  <2> QED
    BY <1>2, <1>3, <2>1, <2>2 DEF PrepPlace
<1>6. MemAsBuilt'
  BY <1>2, <1>3, <1>4 DEF MemAsBuilt, Passed
<1>7. Stores' /\ ListedOnce' /\ RunInv' /\ FinishedIsListed'
  BY <1>3, <1>4 DEF Listing, RunRecord, ListedOnce, RunInv, RunPlace, Pending, Asked,
              RunUsesListed, WholeOnce, HeaderLast, HeaderUnread, FinishedIsListed
<1> QED
  BY <1>5, <1>6, <1>7

(* A family that is written is not among those that were passed.           *)
LEMMA FamNotPassed ==
    ASSUME IInv, prep.pc \in {"write", "list"}
    PROVE  Fam \in Family /\ Fam \notin Passed
<1>1. /\ prep.only \in Seq(Family) /\ IsInjective(prep.only)
      /\ prep.fam \in 1..Len(prep.only) /\ Len(prep.only) \in Nat
  BY DEF IInv, PrepInv, PrepPlace, Preparing
<1>2. \A j \in 1..Len(prep.only) : prep.only[j] = prep.only[prep.fam] => j = prep.fam
  BY <1>1 DEF IsInjective
<1> QED
  BY <1>1, <1>2 DEF Fam, Passed

LEMMA WriteInv == ASSUME IInv, Write PROVE IInv'
<1> USE DEF IInv, Stores, PrepInv
<1>1. PICK twice \in BOOLEAN :
          file' = [file EXCEPT ![Fam] =
             [from |-> prep.got, n |-> [s \in Names[Fam] |-> Chosen(prep.got, s)],
              twice |-> twice]]
  BY DEF Write
<1>2. Fam \in Family /\ Fam \notin Passed
  BY FamNotPassed DEF Write
<1>3. file'[Fam] # None
  <2>1. DOMAIN file'[Fam].n # {}
    BY <1>1, <1>2, FamilyHasFiles
  <2> QED
    BY <2>1 DEF None
<1>4. /\ file' = [f \in Family |-> file'[f]]
      /\ \A f \in Family \ {Fam} : file'[f] = file[f]
  BY <1>1, <1>2
<1>5. /\ PrepRecord' /\ prep'.pc = "list" /\ prep'.fam = prep.fam
      /\ prep'.only = prep.only /\ prep'.mem = prep.mem /\ prep'.failed = prep.failed
  BY DEF Write, PrepRecord
<1>6. manifest' = manifest
  BY DEF Write
<1>7. PrepPlace'
  BY <1>3, <1>5, <1>6 DEF PrepPlace, Write, Preparing, Fam
<1>8. MemAsBuilt'
  BY <1>2, <1>4, <1>5, <1>6 DEF MemAsBuilt, Write, Preparing, Passed
<1>9. /\ RunRecord' /\ run'.pc = run.pc /\ run'.limit = run.limit /\ run'.seen = run.seen
      /\ run'.fams = run.fams /\ run'.fam = run.fam /\ run'.used = run.used
      /\ run'.header = run.header
      /\ run.disturbed \subseteq run'.disturbed /\ run.turned \subseteq run'.turned
      /\ run.pc = "load" /\ Asked = Fam => Asked \in run'.disturbed
      /\ HeaderUnread(Fam) => Fam \in run'.turned
  BY DEF Write, RunRecord
<1>10. RunInv'
  <2>1. RunPlace' /\ WholeOnce' /\ RunUsesListed'
    BY <1>9 DEF RunInv, RunPlace, WholeOnce, RunUsesListed
  <2>5. HeaderLast'
    BY <1>4, <1>9 DEF RunInv, HeaderLast, HeaderUnread
  <2>2. Asked' = Asked
    BY <1>9 DEF Asked
  <2>3. run.pc = "load" => Asked \in Family
    BY DEF RunInv, RunPlace, Asked
  <2>4. Pending'
    BY <1>4, <1>9, <2>2, <2>3 DEF RunInv, Pending
  <2> QED
    BY <2>1, <2>4, <2>5 DEF RunInv
<1>11. Stores' /\ ListedOnce' /\ FinishedIsListed'
  BY <1>4, <1>5, <1>6, <1>9 DEF Listing, ListedOnce, FinishedIsListed
<1> QED
  BY <1>7, <1>8, <1>10, <1>11

LEMMA ListInv == ASSUME IInv, List PROVE IInv'
<1> USE DEF IInv, Stores, PrepInv
<1>1. CASE file[Fam].twice
  BY <1>1, ReadInv DEF List, Reads
<1>2. CASE ~file[Fam].twice
  <2>1. UNCHANGED <<file, manifest, run>>
    BY DEF List
  <2>2. Fam \in Family /\ Fam \notin Passed
    BY FamNotPassed DEF List
  <2>3. prep' = Following([prep EXCEPT !.mem.items[Fam] = file[Fam]])
    BY <1>2 DEF List
  <2>4. /\ PrepRecord' /\ Listing(prep'.mem)
        /\ prep'.only = prep.only /\ prep'.fam = prep.fam + 1
        /\ prep'.failed = prep.failed
        /\ prep'.mem.items[Fam] = file[Fam]
        /\ \A f \in Family \ {Fam} : prep'.mem.items[f] = prep.mem.items[f]
        /\ prep'.pc = IF prep.fam = Len(prep.only) THEN "save" ELSE "fetch"
    BY <2>2, <2>3 DEF PrepRecord, Listing, Following
  <2>5. /\ prep.fam \in 1..Len(prep.only) /\ Len(prep.only) \in Nat
        /\ IsInjective(prep.only) /\ file[Fam] # None
    BY DEF PrepPlace, List, Preparing
  <2>6. Passed' = Passed \cup {Fam}
    BY <2>4, <2>5 DEF Passed, Fam
  <2>7. PrepPlace'
    <3>1. CASE prep.fam = Len(prep.only)
      BY <2>4, <2>5, <3>1 DEF PrepPlace
    <3>2. CASE prep.fam # Len(prep.only)
      <4>1. prep.fam + 1 <= Len(prep.only)
        BY <2>5, <3>2
      <4> QED
        BY <2>4, <2>5, <3>2, <4>1 DEF PrepPlace
    <3> QED
      BY <3>1, <3>2
  <2>8. MemAsBuilt'
    BY <2>1, <2>2, <2>4, <2>5, <2>6 DEF MemAsBuilt, List, Preparing
  <2>9. ListedOnce'
    BY <1>2, <2>1, <2>4 DEF ListedOnce
  <2>10. Stores' /\ RunInv' /\ FinishedIsListed'
    BY <2>1, <2>4 DEF RunRecord, RunInv, RunPlace, Pending, Asked, RunUsesListed,
                      WholeOnce, HeaderLast, HeaderUnread, FinishedIsListed, Listing
  <2> QED
    BY <2>7, <2>8, <2>9, <2>10
<1> QED
  BY <1>1, <1>2

(* The manifest is replaced: entries are kept, or are of files as they are. *)
LEMMA SaveEntries == ASSUME IInv, Save PROVE
    /\ manifest' = prep.mem
    /\ \A f \in Family : \/ manifest'.items[f] = manifest.items[f]
                         \/ manifest'.items[f] = file[f] /\ file[f] # None
BY DEF IInv, PrepInv, MemAsBuilt, Save, Preparing

LEMMA SaveInv == ASSUME IInv, Save PROVE IInv'
<1> USE DEF IInv, Stores, PrepInv
<1>1. /\ prep' = [NoPrep EXCEPT !.pc = IF prep.failed THEN "failed" ELSE "ok",
                               !.only = prep.only]
      /\ manifest' = prep.mem /\ UNCHANGED <<file, run>>
  BY DEF Save
<1>2. /\ PrepRecord' /\ prep'.only = prep.only /\ prep'.fam = 1
      /\ prep'.pc = IF prep.failed THEN "failed" ELSE "ok"
      /\ prep'.failed \in BOOLEAN /\ prep'.mem = NoManifest
  BY <1>1 DEF PrepRecord, NoPrep
<1>3. PrepPlace' /\ MemAsBuilt'
  <2>1. 1 \in Nat \ {0}
    OBVIOUS
  <2> QED
    BY <1>2, <2>1 DEF PrepPlace, MemAsBuilt, Preparing
<1>4. FinishedIsListed'
  <2>1. SUFFICES ASSUME ~prep.failed, NEW i \in 1..Len(prep.only)
                 PROVE  /\ file[prep.only[i]] # None
                        /\ manifest'.items[prep.only[i]] = file[prep.only[i]]
    BY <1>1, <1>2 DEF FinishedIsListed, PrepPlace
  <2>2. prep.only[i] \in Family /\ prep.only[i] \in Passed
    BY DEF PrepPlace, Passed, Save
  <2> QED
    BY <1>1, <2>1, <2>2 DEF MemAsBuilt, Save, Preparing
<1>5. Stores'
  BY <1>1, <1>2 DEF Listing, NoManifest, RunRecord
<1>6. ListedOnce' /\ RunInv'
  BY <1>1, <1>2 DEF ListedOnce, NoManifest, None, RunInv, RunPlace, Pending, Asked,
                    RunUsesListed, WholeOnce, HeaderLast, HeaderUnread
<1> QED
  BY <1>3, <1>4, <1>5, <1>6

LEMMA KillPrepareInv == ASSUME IInv, KillPrepare PROVE IInv'
<1> USE DEF IInv, Stores, PrepInv
<1>1. prep' = [NoPrep EXCEPT !.pc = "killed"] /\ UNCHANGED <<file, manifest, run>>
  BY DEF KillPrepare
<1>2. /\ PrepRecord' /\ prep'.only = <<>> /\ prep'.fam = 1 /\ prep'.pc = "killed"
      /\ prep'.failed \in BOOLEAN /\ prep'.mem = NoManifest
  BY <1>1 DEF PrepRecord, NoPrep
<1>3. 1 \in Nat \ {0} /\ prep'.only \in Seq(Family)
  BY <1>2
<1>4. PrepPlace' /\ MemAsBuilt' /\ FinishedIsListed'
  BY <1>2, <1>3 DEF PrepPlace, MemAsBuilt, Preparing, FinishedIsListed
<1>5. Stores'
  BY <1>1, <1>2 DEF Listing, NoManifest, RunRecord
<1>6. ListedOnce' /\ RunInv'
  BY <1>1, <1>2 DEF ListedOnce, NoManifest, None, RunInv, RunPlace, Pending, Asked,
                    RunUsesListed, WholeOnce, HeaderLast, HeaderUnread
<1> QED
  BY <1>4, <1>5, <1>6

-----------------------------------------------------------------------------
(* The steps of a run read the files and change nothing else.              *)
LEMMA PrepStays == ASSUME IInv, UNCHANGED <<prep, file, manifest>> PROVE PrepInv'
BY DEF IInv, PrepInv, PrepPlace, MemAsBuilt, FinishedIsListed, Preparing, Passed, Fam

LEMMA StartRunInv == ASSUME IInv, StartRun PROVE IInv'
<1> USE DEF IInv, Stores
<1>1. PICK fams \in Requests, limit \in Limits :
        run' = [NoRun EXCEPT !.pc = "check", !.fams = fams, !.limit = limit,
                             !.seen = manifest]
  BY DEF StartRun
<1>2. fams \in Seq(Family) /\ fams # <<>> /\ 1 \in 1..Len(fams)
  BY DataAssumption
<1>3. /\ RunRecord' /\ run'.pc = "check" /\ run'.fams = fams /\ run'.fam = 1
      /\ run'.seen = manifest /\ run'.used = [f \in Family |-> None]
      /\ run'.header = [f \in Family |-> None]
  BY <1>1 DEF RunRecord, NoRun
<1>4. UNCHANGED <<prep, file, manifest>>
  BY DEF StartRun
<1>5. RunInv'
  BY <1>2, <1>3 DEF RunInv, RunPlace, Pending, RunUsesListed, WholeOnce, HeaderLast, HeaderUnread, None
<1>6. Stores' /\ ListedOnce'
  BY <1>3, <1>4 DEF Listing, PrepRecord, ListedOnce
<1> QED
  BY <1>4, <1>5, <1>6, PrepStays

LEMMA CheckInv == ASSUME IInv, Check PROVE IInv'
<1> USE DEF IInv, Stores
<1>1. UNCHANGED <<prep, file, manifest>>
  BY DEF Check
<1>2. /\ RunRecord' /\ run'.fams = run.fams /\ run'.fam = run.fam /\ run'.seen = run.seen
      /\ run'.used = run.used /\ run'.disturbed = run.disturbed /\ run'.limit = run.limit
      /\ run'.header = run.header /\ run'.turned = run.turned
      /\ \/ run'.pc = "refused"
         \/ /\ run'.pc = "load"
            /\ run.seen.items[Asked] = None \/ file[Asked] = run.seen.items[Asked]
  BY DEF Check, RunRecord, Verified
<1>3. RunInv'
  BY <1>1, <1>2 DEF RunInv, RunPlace, Pending, RunUsesListed, WholeOnce, HeaderLast, HeaderUnread, Asked, Check
<1>4. Stores' /\ ListedOnce'
  BY <1>1, <1>2 DEF Listing, PrepRecord, ListedOnce
<1> QED
  BY <1>1, <1>3, <1>4, PrepStays

LEMMA LoadInv == ASSUME IInv, Load PROVE IInv'
<1> USE DEF IInv, Stores
<1>1. UNCHANGED <<prep, file, manifest>>
  BY DEF Load
<1>2. CASE run' = [run EXCEPT !.pc = "refused"]
  <2>1. /\ RunRecord' /\ run'.pc = "refused" /\ run'.seen = run.seen
        /\ run'.used = run.used /\ run'.disturbed = run.disturbed
        /\ run'.limit = run.limit /\ run'.header = run.header /\ run'.turned = run.turned
    BY <1>2 DEF RunRecord
  <2>2. RunInv'
    BY <1>1, <2>1 DEF Load, RunInv, RunPlace, Pending, RunUsesListed, WholeOnce, HeaderLast, HeaderUnread
  <2>3. Stores' /\ ListedOnce'
    BY <1>1, <2>1 DEF Listing, PrepRecord, ListedOnce
  <2> QED
    BY <1>1, <2>2, <2>3, PrepStays
<1>3. ASSUME NEW items,
             file[Asked].twice => run.limit # NoLimit,
             run' = [run EXCEPT
                !.used[Asked] = file[Asked], !.fam = @ + 1,
                !.loaded = Append(@, items),
                !.pc = IF run.fam = Len(run.fams) THEN "plan" ELSE "check"]
      PROVE  IInv'
  <2>1. /\ run.pc = "load" /\ run.fams \in Seq(Family) /\ run.fam \in 1..Len(run.fams)
        /\ Asked \in Family /\ Len(run.fams) \in Nat
    BY DEF Load, RunInv, RunPlace, Asked
  <2>2. /\ RunRecord' /\ run'.fams = run.fams /\ run'.seen = run.seen
        /\ run'.fam = run.fam + 1 /\ run'.limit = run.limit
        /\ run'.disturbed = run.disturbed
        /\ run'.header = run.header /\ run'.turned = run.turned
        /\ run'.used = [f \in Family |-> IF f = Asked THEN file[f] ELSE run.used[f]]
        /\ run'.pc = IF run.fam = Len(run.fams) THEN "plan" ELSE "check"
    BY <1>3, <2>1 DEF RunRecord
  <2>3. RunPlace'
    <3>1. run.fam # Len(run.fams) => run.fam + 1 \in 1..Len(run.fams)
      BY <2>1
    <3> QED
      BY <2>1, <2>2, <3>1 DEF RunPlace
  <2>4. RunUsesListed'
    BY <2>1, <2>2 DEF RunInv, Pending, RunUsesListed, HeaderLast
  <2>7. HeaderLast'
    BY <1>1, <2>1, <2>2 DEF RunInv, HeaderLast, HeaderUnread
  <2>5. WholeOnce' /\ Pending'
    BY <1>3, <2>2 DEF RunInv, WholeOnce, Pending
  <2>6. Stores' /\ ListedOnce'
    BY <1>1, <2>2 DEF Listing, PrepRecord, ListedOnce
  <2> QED
    BY <1>1, <2>3, <2>4, <2>5, <2>6, <2>7, PrepStays DEF RunInv
<1> QED
  BY <1>2, <1>3 DEF Load

LEMMA PlanInv == ASSUME IInv, Plan PROVE IInv'
<1> USE DEF IInv, Stores
<1>1. UNCHANGED <<prep, file, manifest>>
  BY DEF Plan
<1>2. PICK plan : run' = [run EXCEPT !.plan = plan,
                             !.pc = IF plan = <<>> THEN "refused" ELSE "planned"]
  BY DEF Plan
<1>3. /\ RunRecord' /\ run'.pc \in {"refused", "planned"} /\ run'.seen = run.seen
      /\ run'.used = run.used /\ run'.disturbed = run.disturbed /\ run'.limit = run.limit
      /\ run'.header = run.header /\ run'.turned = run.turned
  BY <1>2 DEF RunRecord
<1>4. RunInv'
  BY <1>1, <1>3 DEF Plan, RunInv, RunPlace, Pending, RunUsesListed, WholeOnce, HeaderLast, HeaderUnread
<1>5. Stores' /\ ListedOnce'
  BY <1>1, <1>3 DEF Listing, PrepRecord, ListedOnce
<1> QED
  BY <1>1, <1>4, <1>5, PrepStays

LEMMA ReadHeaderInv == ASSUME IInv, ReadHeader PROVE IInv'
<1> USE DEF IInv, Stores
<1>1. UNCHANGED <<prep, file, manifest>> /\ run.pc = "planned"
  BY DEF ReadHeader
<1>2. PICK f \in Family : HeaderUnread(f) /\ run' = [run EXCEPT !.header[f] = file[f]]
  BY DEF ReadHeader
<1>3. /\ RunRecord' /\ run'.pc = "planned" /\ run'.seen = run.seen
      /\ run'.used = run.used /\ run'.disturbed = run.disturbed /\ run'.limit = run.limit
      /\ run'.turned = run.turned
      /\ run'.header = [g \in Family |-> IF g = f THEN file[f] ELSE run.header[g]]
  BY <1>1, <1>2 DEF RunRecord
<1>4. RunPlace' /\ Pending' /\ WholeOnce'
  BY <1>3 DEF RunInv, RunPlace, Pending, WholeOnce
<1>5. RunUsesListed' /\ HeaderLast'
  BY <1>1, <1>2, <1>3 DEF RunInv, RunUsesListed, HeaderLast, HeaderUnread
<1>6. Stores' /\ ListedOnce'
  BY <1>1, <1>3 DEF Listing, PrepRecord, ListedOnce
<1> QED
  BY <1>1, <1>4, <1>5, <1>6, PrepStays DEF RunInv

-----------------------------------------------------------------------------
LEMMA FetchInv ==
    ASSUME IInv, UseCached \/ CopyFixture \/ Download \/ KeepDigest \/ NotFetched \/ Refused
    PROVE  IInv'
<1>1. ASSUME NEW v, prep' \in Taken(v) PROVE Reads(prep')
  BY <1>1 DEF Taken, Reads
<1>2. Reads(prep')
  BY <1>1 DEF UseCached, CopyFixture, Download, KeepDigest, NotFetched, Refused, Reads
<1>3. /\ prep.pc \in {"fetch", "digest"} /\ UNCHANGED <<file, manifest, run>>
  BY DEF UseCached, CopyFixture, Download, KeepDigest, NotFetched, Refused
<1> QED
  BY <1>2, <1>3, ReadInv

LEMMA StayInv == ASSUME IInv, UNCHANGED <<prep, file, manifest, run>> PROVE IInv'
<1>1. PrepInv'
  BY PrepStays
<1> QED
  BY <1>1 DEF IInv, Stores, PrepRecord, RunRecord, Listing, ListedOnce, RunInv, RunPlace,
              Pending, Asked, RunUsesListed, WholeOnce, HeaderLast, HeaderUnread

LEMMA StepIInv == IInv /\ [Next]_vars => IInv'
<1> SUFFICES ASSUME IInv, [Next]_vars PROVE IInv'
  OBVIOUS
<1>1. CASE Publish \/ UNCHANGED vars
  BY <1>1, StayInv DEF Publish, vars
<1>2. CASE PrepareStep
  BY <1>2, StartPrepareInv, FetchInv, WriteInv, ListInv, SaveInv, KillPrepareInv
     DEF PrepareStep
<1>3. CASE RunStep
  BY <1>3, StartRunInv, CheckInv, LoadInv, PlanInv, ReadHeaderInv DEF RunStep
<1> QED
  BY <1>1, <1>2, <1>3 DEF Next

(* The invariant holds in every state of a data directory.                 *)
THEOREM DataInvariant == Spec => []IInv
BY InitIInv, StepIInv, PTL DEF Spec

(* A run that was not refused uses what its manifest lists, whatever the   *)
(* prepares do meanwhile, but for files replaced between check and load.   *)
THEOREM RunsUseListed == Spec => []RunUsesListed
<1>1. IInv => RunUsesListed
  BY DEF IInv, RunInv
<1> QED
  BY <1>1, DataInvariant, PTL

(* An exit status 0 of prepare_data.py vouches for what it was asked for.  *)
THEOREM ExitZeroVouches == Spec => []FinishedIsListed
<1>1. IInv => FinishedIsListed
  BY DEF IInv, PrepInv
<1> QED
  BY <1>1, DataInvariant, PTL

(* Items that come twice are neither listed nor used where they could be   *)
(* noticed.                                                                *)
THEOREM NothingTwice == Spec => []NoneTwice
<1>1. IInv => NoneTwice
  <2> SUFFICES ASSUME IInv, NEW f \in Family PROVE
          /\ ~manifest.items[f].twice
          /\ run.used[f].twice => /\ run.limit # NoLimit
                                  /\ run.seen.items[f] = None \/ f \in run.disturbed
    BY DEF NoneTwice
  <2>1. run.used[f].twice => run.used[f] # run.seen.items[f] /\ run.used[f] # None
    BY DEF IInv, ListedOnce, None
  <2> QED
    BY <2>1 DEF IInv, ListedOnce, RunInv, RunUsesListed, WholeOnce, HeaderLast, HeaderUnread
<1> QED
  BY <1>1, DataInvariant, PTL

(* No prepare loses an entry or changes one it did not build.              *)
THEOREM EntriesAreKept == Spec => EntriesStay
<1>1. ASSUME IInv, Next PROVE
        \A f \in Family : manifest.items[f] # None =>
          /\ manifest'.items[f] # None
          /\ manifest'.items[f] # manifest.items[f] => manifest'.items[f] = file[f]
  <2>1. CASE Save
    BY <1>1, <2>1, SaveEntries
  <2>2. CASE ~Save
    BY <1>1, <2>2 DEF Next, Publish, PrepareStep, RunStep, StartPrepare, UseCached,
        CopyFixture, Download, KeepDigest, NotFetched, Refused, Write, List, KillPrepare,
        StartRun, Check, Load, Plan, ReadHeader
  <2> QED
    BY <2>1, <2>2
<1> QED
  BY <1>1, DataInvariant, PTL DEF Spec, EntriesStay

-----------------------------------------------------------------------------
(* The pinned source.  There is one, the prompts of ifeval; whatever file  *)
(* is in its place in data/raw is of the pinned version or the fixture.    *)
PinnedData == {Pinned, Fixture}
Raw == [Source -> [data : 0..Fixture, sha : 0..Fixture]]

RawInv ==
    /\ raw \in Raw /\ version \in 1..MaxVersion
    /\ "prompts" \in Source => raw["prompts"].data \in PinnedData \cup {Absent}

(* The files of the present family are read one after another.             *)
Reading ==
    /\ prep.pc \in {"fetch", "digest"} => prep.step \in 1..Len(Recipe[Fam])
    /\ prep.pc = "digest" => raw[Todo.name].data # Absent
    /\ prep.pc = "write" => prep.step = Len(Recipe[Fam]) + 1
    /\ prep.pc \in {"fetch", "digest", "write"} =>
          /\ DOMAIN prep.got = {Recipe[Fam][i].name : i \in 1..(prep.step - 1)}
          /\ "prompts" \in DOMAIN prep.got => prep.got["prompts"] \in PinnedData

PinInv == RawInv /\ Reading /\ PinnedItems

LEMMA OnlyPromptsPinned ==
    ASSUME NEW f \in Family
    PROVE  /\ Len(Recipe[f]) \in 1..4
           /\ \A i \in 1..Len(Recipe[f]) :
                 Recipe[f][i].kind = "pinned" <=> Recipe[f][i].name = "prompts"
<1>1. f \in DOMAIN Recipe
  BY DataAssumption
<1>2. Recipe[f] \in {LongctxFiles, IfevalFiles, ToolsFiles, MathFiles,
                     KnowledgeFiles, CodeFiles}
  BY <1>1 DEF Recipe
<1> DEFINE Good(r) == /\ Len(r) \in 1..4
                      /\ \A i \in 1..Len(r) : r[i].kind = "pinned" <=> r[i].name = "prompts"
<1>3. Good(LongctxFiles)
  BY DEF LongctxFiles, File
<1>4. Good(IfevalFiles)
  BY DEF IfevalFiles, File
<1>5. Good(ToolsFiles)
  BY DEF ToolsFiles, File
<1>6. Good(MathFiles)
  BY DEF MathFiles, File
<1>7. Good(KnowledgeFiles)
  BY DEF KnowledgeFiles, File
<1>8. Good(CodeFiles)
  BY DEF CodeFiles, File
<1> HIDE DEF Good
<1>9. Good(Recipe[f])
  BY <1>2, <1>3, <1>4, <1>5, <1>6, <1>7, <1>8
<1> QED BY <1>9 DEF Good

LEMMA PinnedName ==
    ASSUME NEW f \in Family, NEW s \in Names[f], KindOf(f, s) = "pinned"
    PROVE  s = "prompts"
<1> DEFINE R == {Recipe[f][i] : i \in 1..Len(Recipe[f])}
           q == CHOOSE r \in R : r.name = s
<1>1. f \in DOMAIN Recipe
  BY DataAssumption
<1>2. \E r \in R : r.name = s
  BY <1>1 DEF Names
<1>3. q \in R /\ q.name = s
  BY <1>2
<1>4. q.kind = "pinned"
  BY DEF KindOf
<1> HIDE DEF q
<1> QED BY <1>3, <1>4, OnlyPromptsPinned

(* The place of the present file. *)
LEMMA TodoIs ==
    ASSUME IInv, Reading, prep.pc \in {"fetch", "digest"}
    PROVE  /\ Fam \in Family /\ Todo.name \in Source /\ prep.step \in 1..Len(Recipe[Fam])
           /\ Len(Recipe[Fam]) \in 1..4
           /\ Todo.kind = "pinned" <=> Todo.name = "prompts"
<1>1. Fam \in Family
  BY DEF IInv, PrepInv, PrepPlace, Fam
<1>2. prep.step \in 1..Len(Recipe[Fam])
  BY DEF Reading
<1>3. Fam \in DOMAIN Recipe
  BY <1>1, DataAssumption
<1>4. Todo.name \in Names[Fam]
  BY <1>2, <1>3 DEF Names, Todo
<1> QED BY <1>1, <1>2, <1>4, OnlyPromptsPinned DEF Source, Todo

(* Where the next family starts, nothing of it was read.                   *)
LEMMA NextFamily ==
    ASSUME IInv, prep.pc \in {"fetch", "digest", "list"},
           prep' = Fails(prep) \/ \E m : prep' = Following([prep EXCEPT !.mem.items[Fam] = m])
    PROVE  Reading'
<1>1. PrepRecord /\ prep.only \in Seq(Family) /\ Len(prep.only) \in Nat
      /\ prep.fam \in 1..Len(prep.only)
  BY DEF IInv, Stores, PrepInv, PrepPlace
<1>2. /\ prep'.only = prep.only /\ prep'.fam = prep.fam + 1 /\ prep'.step = 1 /\ prep'.got = <<>>
      /\ prep'.pc = IF prep.fam = Len(prep.only) THEN "save" ELSE "fetch"
  BY <1>1 DEF Fails, Following, PrepRecord
<1>3. CASE prep.fam = Len(prep.only)
  BY <1>2, <1>3 DEF Reading
<1>4. CASE prep.fam # Len(prep.only)
  <2>1. prep.fam + 1 \in 1..Len(prep.only)
    BY <1>1, <1>4
  <2>2. Fam' \in Family
    BY <1>1, <1>2, <2>1 DEF Fam
  <2>3. Len(Recipe[Fam']) \in 1..4
    BY <2>2, OnlyPromptsPinned
  <2>4. DOMAIN prep'.got = {} /\ 1..(prep'.step - 1) = {}
    BY <1>2
  <2>5. {Recipe[Fam'][i].name : i \in 1..(prep'.step - 1)} = {}
    BY <2>4
  <2>6. prep'.step \in 1..Len(Recipe[Fam'])
    <3>1. \A k \in 1..4 : 1 \in 1..k
      OBVIOUS
    <3> QED BY <1>2, <2>3, <3>1
  <2> QED BY <1>2, <1>4, <2>4, <2>5, <2>6 DEF Reading
<1> QED BY <1>3, <1>4

(* A file was read, or the family was given up.                            *)
LEMMA ReadOn ==
    ASSUME IInv, Reading, prep.pc \in {"fetch", "digest"}, NEW v,
           Todo.name = "prompts" => v \in PinnedData,
           prep' = After(Got(Todo.name, v)) \/ prep' = Fails(prep)
    PROVE  Reading'
<1>1. PrepRecord /\ prep.step \in 1..Len(Recipe[Fam]) /\ Len(Recipe[Fam]) \in 1..4
  BY TodoIs DEF IInv, Stores
<1>2. CASE prep' = After(Got(Todo.name, v))
  <2>1. /\ prep'.only = prep.only /\ prep'.fam = prep.fam /\ prep'.step = prep.step + 1
        /\ prep'.got = Got(Todo.name, v)
        /\ prep'.pc = IF prep.step = Len(Recipe[Fam]) THEN "write" ELSE "fetch"
    BY <1>1, <1>2 DEF After, PrepRecord
  <2>2. Fam' = Fam
    BY <2>1 DEF Fam
  <2>3. DOMAIN prep'.got = {Recipe[Fam][i].name : i \in 1..(prep'.step - 1)}
    <3>1. DOMAIN prep'.got = DOMAIN prep.got \cup {Recipe[Fam][prep.step].name}
      BY <2>1 DEF Got, Todo
    <3>2. 1..(prep'.step - 1) = 1..(prep.step - 1) \cup {prep.step}
      BY <1>1, <2>1
    <3> QED BY <3>1, <3>2 DEF Reading
  <2>4. "prompts" \in DOMAIN prep'.got => prep'.got["prompts"] \in PinnedData
    BY <2>1 DEF Reading, Got
  <2>5. /\ prep'.pc = "fetch" => prep'.step \in 1..Len(Recipe[Fam])
        /\ prep'.pc = "write" => prep'.step = Len(Recipe[Fam]) + 1
    BY <1>1, <2>1
  <2> QED BY <2>1, <2>2, <2>3, <2>4, <2>5 DEF Reading
<1>3. CASE prep' = Fails(prep)
  BY <1>3, NextFamily
<1> QED BY <1>2, <1>3

LEMMA PinInit == Init => PinInv
<1> SUFFICES ASSUME Init PROVE PinInv
  OBVIOUS
<1>1. RawInv
  BY DataAssumption DEF Init, RawInv, Raw, Absent, Fixture, Pinned
<1>2. Reading /\ PinnedItems
  BY DEF Init, Reading, PinnedItems, NoPrep
<1> QED BY <1>1, <1>2 DEF PinInv

LEMMA TakenIs ==
    ASSUME NEW v, prep' \in Taken(v)
    PROVE  prep' = After(Got(Todo.name, v)) \/ prep' = Fails(prep)
BY DEF Taken

(* A step that reads one file of a family, for each way there is.          *)
LEMMA UseCachedPin == ASSUME IInv, PinInv, UseCached PROVE PinInv'
<1> DEFINE v == raw[Todo.name].data
<1>1. prep.pc = "fetch" /\ UNCHANGED <<raw, version, file>> /\ v # Absent
  BY DEF UseCached, Cached
<1>2. Todo.name = "prompts" => v \in PinnedData
  BY <1>1, TodoIs DEF PinInv, RawInv
<1>3. Reading'
  <2>1. prep' \in Taken(v)
    BY DEF UseCached
  <2> HIDE DEF v
  <2> QED BY <1>1, <1>2, <2>1, TakenIs, ReadOn DEF PinInv
<1> QED BY <1>1, <1>3 DEF PinInv, RawInv, PinnedItems

LEMMA CopyFixturePin == ASSUME IInv, PinInv, CopyFixture PROVE PinInv'
<1>1. prep.pc = "fetch" /\ UNCHANGED <<version, file>> /\ Todo.name \in Source
      /\ raw' = [raw EXCEPT ![Todo.name].data = Fixture]
  BY TodoIs DEF CopyFixture, PinInv
<1>2. Fixture \in 0..Fixture
  BY DataAssumption DEF Fixture
<1>3. RawInv'
  BY <1>1, <1>2 DEF PinInv, RawInv, Raw, PinnedData
<1>4. Reading'
  BY <1>1, TakenIs, ReadOn DEF PinInv, CopyFixture, PinnedData
<1> QED BY <1>1, <1>3, <1>4 DEF PinInv, PinnedItems

LEMMA DownloadPin == ASSUME IInv, PinInv, Download PROVE PinInv'
<1>1. /\ prep.pc = "fetch" /\ UNCHANGED <<version, file>> /\ Todo.name \in Source
      /\ raw' = [raw EXCEPT ![Todo.name].data = version]
      /\ prep' = [prep EXCEPT !.pc = "digest"]
  BY TodoIs DEF Download, PinInv
<1>2. version \in 0..Fixture /\ version # Absent
  BY DataAssumption DEF Fixture, PinInv, RawInv, Absent
<1>3. Todo.name = "prompts" => version = Pinned
  BY <1>1, TodoIs DEF Download, Wants, Takes, PinInv
<1>4. RawInv'
  BY <1>1, <1>2, <1>3 DEF PinInv, RawInv, Raw, PinnedData
<1>5. /\ prep'.only = prep.only /\ prep'.fam = prep.fam /\ prep'.step = prep.step
      /\ prep'.got = prep.got /\ prep'.pc = "digest"
  BY <1>1 DEF IInv, Stores, PrepRecord
<1>6. Fam' = Fam /\ Todo' = Todo
  BY <1>5 DEF Fam, Todo
<1>7. raw'[Todo.name].data = version
  BY <1>1 DEF PinInv, RawInv, Raw
<1>8. Reading'
  BY <1>1, <1>2, <1>5, <1>6, <1>7 DEF PinInv, Reading
<1> QED BY <1>1, <1>4, <1>8 DEF PinInv, PinnedItems

LEMMA KeepDigestPin == ASSUME IInv, PinInv, KeepDigest PROVE PinInv'
<1> DEFINE v == raw[Todo.name].data
<1>1. prep.pc = "digest" /\ UNCHANGED <<version, file>> /\ Todo.name \in Source
      /\ raw' = [raw EXCEPT ![Todo.name].sha = v] /\ v # Absent
  BY TodoIs DEF KeepDigest, PinInv, Reading
<1>2. Todo.name = "prompts" => v \in PinnedData
  BY <1>1 DEF PinInv, RawInv
<1>3. RawInv'
  BY <1>1 DEF PinInv, RawInv, Raw
<1>4. Reading'
  <2>1. prep' \in Taken(v)
    BY DEF KeepDigest
  <2> HIDE DEF v
  <2> QED BY <1>1, <1>2, <2>1, TakenIs, ReadOn DEF PinInv
<1> QED BY <1>1, <1>3, <1>4 DEF PinInv, PinnedItems

LEMMA NoFilePin == ASSUME IInv, PinInv, NotFetched \/ Refused PROVE PinInv'
<1>1. prep.pc = "fetch" /\ UNCHANGED <<raw, version, file>>
  BY DEF NotFetched, Refused
<1>2. \/ prep' = Fails(prep)
      \/ Todo.kind \in {"optional", "gated"} /\ prep' = After(Got(Todo.name, Absent))
  BY DEF NotFetched, Refused
<1>3. Todo.name = "prompts" => Todo.kind = "pinned"
  BY <1>1, TodoIs DEF PinInv
<1>4. Reading'
  <2>1. CASE prep' = Fails(prep)
    BY <1>1, <2>1, NextFamily
  <2>2. CASE Todo.kind \in {"optional", "gated"} /\ prep' = After(Got(Todo.name, Absent))
    BY <1>1, <1>3, <2>2, ReadOn DEF PinInv
  <2> QED BY <1>2, <2>1, <2>2
<1> QED BY <1>1, <1>4 DEF PinInv, RawInv, PinnedItems

(* The item file is chosen from files that were all read.                  *)
LEMMA WritePin == ASSUME IInv, PinInv, Write PROVE PinInv'
<1>1. /\ prep.pc = "write" /\ UNCHANGED <<raw, version>>
      /\ prep' = [prep EXCEPT !.pc = "list"]
  BY DEF Write
<1>2. Fam \in Family
  BY <1>1, FamNotPassed
<1>3. PICK twice \in BOOLEAN :
          file' = [file EXCEPT ![Fam] =
             [from |-> prep.got, n |-> [s \in Names[Fam] |-> Chosen(prep.got, s)],
              twice |-> twice]]
  BY DEF Write
<1>4. file'[Fam].from = prep.got /\ \A f \in Family \ {Fam} : file'[f] = file[f]
  BY <1>2, <1>3 DEF IInv, Stores
<1>5. Names[Fam] \subseteq DOMAIN prep.got
  <2>1. Fam \in DOMAIN Recipe
    BY <1>2, DataAssumption
  <2>2. prep.step - 1 = Len(Recipe[Fam])
    BY <1>1, <1>2, OnlyPromptsPinned DEF PinInv, Reading
  <2>3. DOMAIN prep.got = {Recipe[Fam][i].name : i \in 1..Len(Recipe[Fam])}
    BY <1>1, <2>2 DEF PinInv, Reading
  <2> QED BY <2>1, <2>3 DEF Names
<1>6. PinnedItems'
  <2> SUFFICES ASSUME NEW f \in Family, file'[f] # None, NEW s \in Names[f],
                      KindOf(f, s) = "pinned"
               PROVE  file'[f].from[s] \in PinnedData
    BY DEF PinnedItems, PinnedData
  <2>1. CASE f = Fam
    BY <1>1, <1>4, <1>5, <2>1, PinnedName DEF PinInv, Reading
  <2>2. CASE f # Fam
    BY <1>4, <2>2 DEF PinInv, PinnedItems, PinnedData
  <2> QED BY <2>1, <2>2
<1>7. prep'.pc = "list"
  BY <1>1 DEF IInv, Stores, PrepRecord
<1> QED BY <1>1, <1>6, <1>7 DEF PinInv, RawInv, Reading

LEMMA StepPin == IInv /\ PinInv /\ [Next]_vars => PinInv'
<1> SUFFICES ASSUME IInv, PinInv, [Next]_vars PROVE PinInv'
  OBVIOUS
<1>1. CASE StartPrepare
  <2>1. UNCHANGED <<raw, version, file>>
    BY <1>1 DEF StartPrepare
  <2>2. PICK only \in Requests :
            /\ prep'.pc = "fetch" /\ prep'.only = only /\ prep'.fam = 1 /\ prep'.step = 1
            /\ prep'.got = <<>>
    BY <1>1 DEF StartPrepare, NoPrep
  <2>3. Fam' \in Family
    <3>1. only \in Seq(Family) /\ only # <<>> /\ Len(only) \in Nat \ {0}
      BY DataAssumption
    <3> QED BY <2>2, <3>1 DEF Fam
  <2>4. Len(Recipe[Fam']) \in 1..4
    BY <2>3, OnlyPromptsPinned
  <2>5. DOMAIN prep'.got = {} /\ 1..(prep'.step - 1) = {}
    BY <2>2
  <2>6. {Recipe[Fam'][i].name : i \in 1..(prep'.step - 1)} = {}
    BY <2>5
  <2>7. prep'.step \in 1..Len(Recipe[Fam'])
    <3>1. \A k \in 1..4 : 1 \in 1..k
      OBVIOUS
    <3> QED BY <2>2, <2>4, <3>1
  <2> QED BY <2>1, <2>2, <2>5, <2>6, <2>7 DEF PinInv, RawInv, Reading, PinnedItems
<1>2. CASE List
  <2>1. UNCHANGED <<raw, version, file>> /\ prep.pc = "list"
    BY <1>2 DEF List
  <2>2. prep' = Fails(prep) \/ prep' = Following([prep EXCEPT !.mem.items[Fam] = file[Fam]])
    BY <1>2 DEF List
  <2>3. Reading'
    BY <2>1, <2>2, NextFamily
  <2> QED BY <2>1, <2>3 DEF PinInv, RawInv, PinnedItems
<1>3. CASE Save \/ KillPrepare
  <2>1. prep'.pc \in {"ok", "failed", "killed"}
    BY <1>3 DEF Save, KillPrepare, NoPrep
  <2> QED BY <1>3, <2>1 DEF Save, KillPrepare, PinInv, RawInv, Reading, PinnedItems
<1>4. CASE Publish
  <2>1. version' \in 1..MaxVersion
    BY <1>4, DataAssumption DEF Publish, PinInv, RawInv
  <2> QED BY <1>4, <2>1 DEF Publish, PinInv, RawInv, Reading, PinnedItems, Fam, Todo
<1>5. CASE RunStep \/ UNCHANGED vars
  BY <1>5 DEF RunStep, StartRun, Check, Load, Plan, ReadHeader, vars, PinInv, RawInv, Reading,
              PinnedItems, Fam, Todo
<1> QED
  BY <1>1, <1>2, <1>3, <1>4, <1>5, UseCachedPin, CopyFixturePin, DownloadPin, KeepDigestPin,
     NoFilePin, WritePin DEF Next, PrepareStep

(* Whatever the sources publish and wherever fetches were cut off: items   *)
(* of a pinned source are of that version or of the fixture                *)
(* (prepare_data.py, ifeval).                                              *)
THEOREM PinnedStaysPinned == Spec => []PinnedItems
<1>1. PinInv => PinnedItems
  BY DEF PinInv
<1> QED
  BY <1>1, DataInvariant, PinInit, StepPin, PTL DEF Spec

-----------------------------------------------------------------------------
(* The order of a plan.  What holds after every turn of the loop is proved *)
(* by induction on the turns, for sets of naturals.                        *)
Less == {p \in Nat \X Nat : p[1] < p[2]}

LEMMA LeastElement ==
    ASSUME NEW T, T \subseteq Nat, T # {}
    PROVE  \E n \in T : \A m \in T : n <= m
<1>1. OpToRel(<, Nat) = Less
  BY DEF OpToRel, Less
<1>2. PICK n \in T : \A m \in T : <<m, n>> \notin Less
  BY <1>1, NatLessThanWellFounded, WFMin
<1>3. \A m \in T : ~(m < n)
  <2> TAKE m \in T
  <2>1. <<m, n>> \in Nat \X Nat /\ <<m, n>> \notin Less
    BY <1>2
  <2> QED BY <2>1 DEF Less
<1> QED BY <1>3

LEMMA Induction ==
    ASSUME NEW T, 0 \in T, \A n \in Nat : n \in T => n + 1 \in T
    PROVE  Nat \subseteq T
<1> SUFFICES ASSUME ~(Nat \subseteq T) PROVE FALSE
  OBVIOUS
<1>1. PICK n \in Nat \ T : \A m \in Nat \ T : n <= m
  BY LeastElement
<1>2. n # 0 /\ n - 1 \in Nat /\ n - 1 \in T
  BY <1>1
<1> QED BY <1>1, <1>2

(* Groups of items, of which only the lengths matter to the turns.         *)
Groups(G) == /\ Len(G) \in Nat
             /\ \A k \in 1..Len(G) : /\ Len(G[k]) \in Nat
                                     /\ G[k] = <<>> <=> Len(G[k]) = 0
Had(G, had) == UNION {{k} \X (1..had[k]) : k \in 1..Len(G)}

LEMMA HadFinite ==
    ASSUME NEW G, Groups(G), NEW had \in [1..Len(G) -> Nat]
    PROVE  IsFiniteSet(Had(G, had)) /\ Cardinality(Had(G, had)) \in Nat
<1> DEFINE D == 1..Len(G)
           piles == {{k} \X (1..had[k]) : k \in D}
           g == [k \in D |-> {k} \X (1..had[k])]
<1>1. g \in Surjection(D, piles)
  BY DEF Surjection
<1>2. IsFiniteSet(D)
  <2>1. Len(G) \in Int /\ 1 \in Int
    BY DEF Groups
  <2> QED BY <2>1, FS_Interval
<1>3. IsFiniteSet(piles)
  BY <1>1, <1>2, FS_Surjection
<1>4. ASSUME NEW T \in piles PROVE IsFiniteSet(T)
  <2>1. PICK k \in D : T = {k} \X (1..had[k])
    OBVIOUS
  <2>2. had[k] \in Int /\ 1 \in Int
    OBVIOUS
  <2>3. IsFiniteSet({k}) /\ IsFiniteSet(1..had[k])
    BY <2>2, FS_Singleton, FS_Interval
  <2> QED BY <2>1, <2>3, FS_Product
<1>5. IsFiniteSet(UNION piles)
  BY <1>3, <1>4, FS_UNION
<1> QED BY <1>5, FS_CardinalityType DEF Had

LEMMA PlacesFinite ==
    ASSUME NEW G, Groups(G)
    PROVE  IsFiniteSet(Places(G)) /\ Cardinality(Places(G)) \in Nat
<1> DEFINE had == [k \in 1..Len(G) |-> Len(G[k])]
<1>1. had \in [1..Len(G) -> Nat] /\ Had(G, had) = Places(G)
  BY DEF Groups, Had, Places
<1> QED BY <1>1, HadFinite

(* The ranks of the groups that are left: 1, 2, ... in their order.        *)
LEMMA Ranks ==
    ASSUME NEW left, IsFiniteSet(left), left \subseteq Nat
    PROVE  /\ \A k \in left : Rank(left, k) \in 1..Cardinality(left)
           /\ \A k, h \in left : k < h => Rank(left, k) < Rank(left, h)
<1> DEFINE below(k) == {j \in left : j <= k}
<1>1. Cardinality(left) \in Nat /\ \A k \in left : IsFiniteSet(below(k)) /\ Cardinality(below(k)) \in Nat
  BY FS_CardinalityType, FS_Subset
<1>2. ASSUME NEW k \in left PROVE Rank(left, k) \in 1..Cardinality(left)
  <2>1. below(k) # {} /\ below(k) \subseteq left
    OBVIOUS
  <2>2. Cardinality(below(k)) <= Cardinality(left) /\ Cardinality(below(k)) # 0
    BY <1>1, <2>1, FS_Subset, FS_EmptySet
  <2> QED BY <1>1, <2>2 DEF Rank
<1>3. ASSUME NEW k \in left, NEW h \in left, k < h
      PROVE  Rank(left, k) < Rank(left, h)
  <2>0. k \in Int /\ h \in Int /\ \A j \in left : j \in Int
    OBVIOUS
  <2>1. below(k) \subseteq below(h) /\ h \in below(h) /\ h \notin below(k)
    <3>1. \A j \in left : j <= k => j <= h
      BY <1>3, <2>0
    <3>2. h <= h /\ ~(h <= k)
      BY <1>3, <2>0
    <3> QED BY <3>1, <3>2
  <2>2. Cardinality(below(k)) <= Cardinality(below(h)) /\ Cardinality(below(k)) # Cardinality(below(h))
    BY <1>1, <2>1, FS_Subset
  <2> QED BY <1>1, <2>2 DEF Rank
<1> QED BY <1>2, <1>3

LEMMA AtEveryRank ==
    ASSUME NEW left, IsFiniteSet(left), left \subseteq Nat,
           NEW p \in 1..Cardinality(left)
    PROVE  AtRank(left, p) \in left /\ Rank(left, AtRank(left, p)) = p
<1> DEFINE C == Cardinality(left)  r == [k \in left |-> Rank(left, k)]
<1>1. C \in Nat
  BY FS_CardinalityType
<1>2. r \in Injection(left, 1..C)
  <2>1. \A k \in left : Rank(left, k) \in 1..C
    BY Ranks
  <2>2. \A k, h \in left : Rank(left, k) = Rank(left, h) => k = h
    <3> TAKE k, h \in left
    <3>1. k \in Nat /\ h \in Nat /\ Rank(left, k) \in Int /\ Rank(left, h) \in Int
      BY <2>1
    <3>2. k < h \/ h < k \/ k = h
      BY <3>1
    <3>3. /\ k < h => Rank(left, k) < Rank(left, h)
          /\ h < k => Rank(left, h) < Rank(left, k)
      BY Ranks
    <3> QED BY <3>1, <3>2, <3>3
  <2> QED BY <2>1, <2>2 DEF Injection, IsInjective
<1>3. IsFiniteSet(1..C) /\ Cardinality(1..C) = C
  BY <1>1, FS_Interval
<1>4. r \in Surjection(left, 1..C)
  BY <1>2, <1>3, FS_Injection
<1>5. \E k \in left : Rank(left, k) = p
  BY <1>4 DEF Surjection
<1> QED BY <1>5 DEF AtRank

-----------------------------------------------------------------------------
(* The turns exist: each follows from the one in front of it.              *)
FirstTurn(G) == [out  |-> <<>>,
                 had  |-> [k \in 1..Len(G) |-> 0],
                 left |-> {k \in 1..Len(G) : G[k] # <<>>},
                 idx  |-> 0]
TurnsUpTo(G, t, n) ==
    t = [i \in 0..n |-> IF i = 0 THEN FirstTurn(G) ELSE Turn(G, t[i - 1])]

LEMMA TurnsExist == ASSUME NEW G, NEW T \in Nat PROVE \E t : TurnsUpTo(G, t, T)
<1> DEFINE N == {n \in Nat : \E t : TurnsUpTo(G, t, n)}
<1>1. 0 \in N
  <2> DEFINE t == [i \in 0..0 |-> FirstTurn(G)]
  <2>1. TurnsUpTo(G, t, 0)
    <3>1. \A i \in 0..0 : i = 0
      OBVIOUS
    <3> HIDE DEF FirstTurn
    <3> QED BY <3>1 DEF TurnsUpTo
  <2> QED BY <2>1
<1>2. ASSUME NEW n \in Nat, n \in N PROVE n + 1 \in N
  <2>1. PICK t : TurnsUpTo(G, t, n)
    BY <1>2
  <2> DEFINE u == [i \in 0..(n + 1) |-> IF i = n + 1 THEN Turn(G, t[n]) ELSE t[i]]
  <2>2. \A i \in 0..n : u[i] = t[i] /\ i \in 0..(n + 1) /\ i # n + 1
    OBVIOUS
  <2>3. ASSUME NEW i \in 0..(n + 1)
        PROVE  u[i] = IF i = 0 THEN FirstTurn(G) ELSE Turn(G, u[i - 1])
    <3>1. CASE i = n + 1
      <4>1. i - 1 = n /\ n \in 0..n /\ i # 0
        BY <3>1
      <4> QED BY <2>2, <3>1, <4>1
    <3>2. CASE i # n + 1
      <4>1. i \in 0..n /\ (i # 0 => i - 1 \in 0..n)
        BY <3>2
      <4>2. u[i] = t[i] /\ (i # 0 => u[i - 1] = t[i - 1])
        BY <2>2, <4>1
      <4>3. t[i] = IF i = 0 THEN FirstTurn(G) ELSE Turn(G, t[i - 1])
        BY <2>1, <4>1 DEF TurnsUpTo
      <4> HIDE DEF u
      <4> QED BY <4>2, <4>3
    <3> QED BY <3>1, <3>2
  <2>4. u = [i \in 0..(n + 1) |-> u[i]]
    OBVIOUS
  <2> HIDE DEF u
  <2>5. TurnsUpTo(G, u, n + 1)
    BY <2>3, <2>4 DEF TurnsUpTo
  <2> QED BY <2>5
<1>3. T \in N
  BY <1>1, <1>2, Induction
<1> QED BY <1>3

LEMMA TurnAfterTurn ==
    ASSUME NEW G, Groups(G)
    PROVE  /\ Turns(G)[0] = FirstTurn(G)
           /\ \A n \in Nat : n + 1 <= Cardinality(Places(G)) =>
                 Turns(G)[n + 1] = Turn(G, Turns(G)[n])
<1> DEFINE T == Cardinality(Places(G))
<1>1. T \in Nat
  BY PlacesFinite
<1>2. TurnsUpTo(G, Turns(G), T)
  <2>1. \E t : t = [i \in 0..T |-> IF i = 0 THEN FirstTurn(G) ELSE Turn(G, t[i - 1])]
    BY <1>1, TurnsExist DEF TurnsUpTo
  <2> QED BY <2>1 DEF Turns, FirstTurn, TurnsUpTo
<1>3. \A i \in 0..T : Turns(G)[i] = IF i = 0 THEN FirstTurn(G) ELSE Turn(G, Turns(G)[i - 1])
  BY <1>2 DEF TurnsUpTo
<1>4. ASSUME NEW n \in Nat, n + 1 <= T PROVE Turns(G)[n + 1] = Turn(G, Turns(G)[n])
  <2>1. n + 1 \in 0..T /\ n + 1 # 0 /\ (n + 1) - 1 = n
    BY <1>1, <1>4
  <2> QED BY <1>3, <2>1
<1>5. 0 \in 0..T
  BY <1>1
<1> QED BY <1>3, <1>4, <1>5

-----------------------------------------------------------------------------
(* What a turn keeps.  After n turns had[k] items of group k have been     *)
(* taken, in their order, and n of them in all.                            *)
TurnsTaken(G, out, had, n) ==
    /\ out \in Seq(Nat \X Nat) /\ Len(out) = n
    /\ \A i \in 1..n : LET k == out[i][1] IN
          k \in 1..Len(G) /\ out[i][2] = Count(out, 1, k, i)
    /\ had \in [1..Len(G) -> Nat]
    /\ \A k \in 1..Len(G) : had[k] = Count(out, 1, k, n) /\ had[k] <= Len(G[k])
    /\ Cardinality(Had(G, had)) = n

LEMMA PartFinite ==
    ASSUME NEW n \in Nat, NEW T \in SUBSET (1..n)
    PROVE  IsFiniteSet(T) /\ Cardinality(T) \in Nat
<1>1. IsFiniteSet(1..n)
  BY FS_Interval
<1> QED BY <1>1, FS_Subset, FS_CardinalityType

LEMMA CountIsNumber ==
    ASSUME NEW plan, NEW c, NEW g, NEW n \in Nat
    PROVE  Count(plan, c, g, n) \in Nat
<1>1. {i \in 1..n : plan[i][c] = g} \in SUBSET (1..n)
  OBVIOUS
<1> QED BY <1>1, PartFinite DEF Count

(* Counts look at the first items only.                                    *)
LEMMA CountSame ==
    ASSUME NEW p, NEW q, NEW c, NEW g, NEW n \in Nat, \A i \in 1..n : p[i] = q[i]
    PROVE  Count(p, c, g, n) = Count(q, c, g, n)
<1>1. {i \in 1..n : p[i][c] = g} = {i \in 1..n : q[i][c] = g}
  OBVIOUS
<1> QED BY <1>1 DEF Count

LEMMA CountNext ==
    ASSUME NEW plan, NEW c, NEW g, NEW n \in Nat
    PROVE  Count(plan, c, g, n + 1) =
              Count(plan, c, g, n) + (IF plan[n + 1][c] = g THEN 1 ELSE 0)
<1> DEFINE is(m) == {i \in 1..m : plan[i][c] = g}
<1>1. IsFiniteSet(is(n)) /\ Cardinality(is(n)) \in Nat
  <2>1. is(n) \in SUBSET (1..n)
    OBVIOUS
  <2> HIDE DEF is
  <2> QED BY <2>1, PartFinite
<1>2. 1..(n + 1) = (1..n) \cup {n + 1} /\ n + 1 \notin 1..n
  OBVIOUS
<1>3. CASE plan[n + 1][c] = g
  <2>1. is(n + 1) = is(n) \cup {n + 1} /\ n + 1 \notin is(n)
    BY <1>2, <1>3
  <2>2. Cardinality(is(n + 1)) = Cardinality(is(n)) + 1
    BY <1>1, <2>1, FS_AddElement
  <2> QED BY <1>3, <2>2 DEF Count
<1>4. CASE plan[n + 1][c] # g
  <2>1. is(n + 1) = is(n)
    BY <1>2, <1>4
  <2> QED BY <1>1, <1>4, <2>1 DEF Count
<1> QED BY <1>3, <1>4

LEMMA CountNone == ASSUME NEW plan, NEW c, NEW g PROVE Count(plan, c, g, 0) = 0
<1>1. {i \in 1..0 : plan[i][c] = g} = {}
  OBVIOUS
<1> QED BY <1>1, FS_EmptySet DEF Count

LEMMA CountGrows ==
    ASSUME NEW plan, NEW c, NEW g, NEW m \in Nat, NEW n \in Nat, m <= n
    PROVE  Count(plan, c, g, m) <= Count(plan, c, g, n)
<1>1. {i \in 1..m : plan[i][c] = g} \in SUBSET {i \in 1..n : plan[i][c] = g}
  <2>1. \A i \in 1..m : i \in 1..n
    OBVIOUS
  <2> QED BY <2>1
<1>2. {i \in 1..n : plan[i][c] = g} \in SUBSET (1..n)
  OBVIOUS
<1>3. IsFiniteSet({i \in 1..n : plan[i][c] = g})
  BY <1>2, PartFinite
<1> QED BY <1>1, <1>3, FS_Subset DEF Count

(* A turn takes the next item of a group that has one.                     *)
NextOut(out, had, k) == Append(out, <<k, had[k] + 1>>)
NextHad(had, k) == [had EXCEPT ![k] = had[k] + 1]

LEMMA TurnTakes ==
    ASSUME NEW G, Groups(G), NEW out, NEW had, NEW n \in Nat, TurnsTaken(G, out, had, n),
           NEW k \in 1..Len(G), had[k] < Len(G[k])
    PROVE  /\ TurnsTaken(G, NextOut(out, had, k), NextHad(had, k), n + 1)
           /\ \A i \in 1..n : NextOut(out, had, k)[i] = out[i]
<1> DEFINE new == <<k, had[k] + 1>>  out1 == Append(out, new)
           had1 == [had EXCEPT ![k] = had[k] + 1]
<1>1. Len(G) \in Nat /\ k \in Nat /\ had[k] \in Nat /\ Len(G[k]) \in Nat
  BY DEF Groups, TurnsTaken
<1>2. /\ out1 \in Seq(Nat \X Nat) /\ Len(out1) = n + 1
      /\ out1[n + 1] = new /\ \A i \in 1..n : out1[i] = out[i]
  <2>1. new \in Nat \X Nat /\ out \in Seq(Nat \X Nat) /\ Len(out) = n
    BY <1>1 DEF TurnsTaken
  <2> HIDE DEF new
  <2> QED BY <2>1
<1>3. new[1] = k /\ new[2] = had[k] + 1
  OBVIOUS
<1> HIDE DEF new, out1
<1>4. \A g : \A m \in 0..n : Count(out1, 1, g, m) = Count(out, 1, g, m)
  <2> TAKE g
  <2> TAKE m \in 0..n
  <2>1. m \in Nat /\ \A i \in 1..m : out1[i] = out[i]
    BY <1>2
  <2> QED BY <2>1, CountSame
<1>5. \A g : Count(out1, 1, g, n + 1) = Count(out, 1, g, n) + (IF g = k THEN 1 ELSE 0)
  <2> TAKE g
  <2>1. n \in 0..n /\ out1[n + 1][1] = k
    BY <1>2, <1>3
  <2> QED BY <1>4, <2>1, CountNext
<1>6. had1 \in [1..Len(G) -> Nat]
      /\ \A j \in 1..Len(G) : had1[j] = IF j = k THEN had[j] + 1 ELSE had[j]
  BY <1>1 DEF TurnsTaken
<1>7. \A j \in 1..Len(G) : had1[j] = Count(out1, 1, j, n + 1) /\ had1[j] <= Len(G[j])
  <2> TAKE j \in 1..Len(G)
  <2>1. had[j] = Count(out, 1, j, n) /\ had[j] <= Len(G[j]) /\ had[j] \in Nat
    BY DEF TurnsTaken
  <2> QED BY <1>1, <1>5, <1>6, <2>1
<1>8. ASSUME NEW i \in 1..(n + 1)
      PROVE  out1[i][1] \in 1..Len(G) /\ out1[i][2] = Count(out1, 1, out1[i][1], i)
  <2>1. CASE i = n + 1
    <3>1. had[k] = Count(out, 1, k, n)
      BY DEF TurnsTaken
    <3> QED BY <1>2, <1>3, <1>5, <2>1, <3>1
  <2>2. CASE i # n + 1
    <3>1. i \in 1..n /\ i \in 0..n
      BY <2>2
    <3> QED BY <1>2, <1>4, <3>1 DEF TurnsTaken
  <2> QED BY <2>1, <2>2
<1>9. Cardinality(Had(G, had1)) = n + 1
  <2>1. Had(G, had1) = Had(G, had) \cup {new}
    <3>1. \A j \in 1..Len(G) : had[j] \in Nat
      BY DEF TurnsTaken
    <3>2. 1..(had[k] + 1) = (1..had[k]) \cup {had[k] + 1}
      BY <1>1
    <3>3. \A j \in 1..Len(G) : {j} \X (1..had1[j]) =
             IF j = k THEN ({j} \X (1..had[j])) \cup {new} ELSE {j} \X (1..had[j])
      BY <1>6, <3>2 DEF new
    <3> HIDE DEF had1
    <3> QED BY <3>3 DEF Had
  <2>2. new \notin Had(G, had)
    <3>1. had[k] + 1 \notin 1..had[k]
      BY <1>1
    <3> QED BY <3>1 DEF new, Had
  <2>3. IsFiniteSet(Had(G, had)) /\ Cardinality(Had(G, had)) = n
    BY HadFinite DEF TurnsTaken
  <2> QED BY <2>1, <2>2, <2>3, FS_AddElement
<1> HIDE DEF had1
<1>10. TurnsTaken(G, out1, had1, n + 1)
  BY <1>2, <1>6, <1>7, <1>8, <1>9 DEF TurnsTaken
<1>11. out1 = NextOut(out, had, k) /\ had1 = NextHad(had, k)
  BY DEF out1, new, had1, NextOut, NextHad
<1> QED BY <1>2, <1>10, <1>11

(* As long as not all items are taken some group has one left, and when    *)
(* they are none has.                                                      *)
LEMMA TurnsLeft ==
    ASSUME NEW G, Groups(G), NEW out, NEW had, NEW n \in Nat, TurnsTaken(G, out, had, n)
    PROVE  /\ n < Cardinality(Places(G)) => \E k \in 1..Len(G) : had[k] < Len(G[k])
           /\ n = Cardinality(Places(G)) => \A k \in 1..Len(G) : had[k] = Len(G[k])
<1>1. \A k \in 1..Len(G) : had[k] \in Nat /\ Len(G[k]) \in Nat /\ had[k] <= Len(G[k])
  BY DEF TurnsTaken, Groups
<1>2. Had(G, had) \subseteq Places(G)
  <2>1. \A k \in 1..Len(G) : 1..had[k] \subseteq 1..Len(G[k])
    BY <1>1
  <2> QED BY <2>1 DEF Had, Places
<1>3. IsFiniteSet(Places(G)) /\ Cardinality(Had(G, had)) = n
  BY PlacesFinite DEF TurnsTaken
<1>4. ASSUME n < Cardinality(Places(G)) PROVE \E k \in 1..Len(G) : had[k] < Len(G[k])
  <2> SUFFICES ASSUME \A k \in 1..Len(G) : ~(had[k] < Len(G[k])) PROVE FALSE
    OBVIOUS
  <2>1. \A k \in 1..Len(G) : had[k] = Len(G[k])
    BY <1>1
  <2>2. Had(G, had) = Places(G)
    BY <2>1 DEF Had, Places
  <2> QED BY <1>3, <1>4, <2>2
<1>5. ASSUME n = Cardinality(Places(G)), NEW k \in 1..Len(G) PROVE had[k] = Len(G[k])
  <2>1. Had(G, had) = Places(G)
    BY <1>2, <1>3, <1>5, FS_Subset
  <2>2. CASE Len(G[k]) = 0
    BY <1>1, <2>2
  <2>3. CASE Len(G[k]) # 0
    <3>1. Len(G[k]) \in 1..Len(G[k])
      BY <1>1, <2>3
    <3>2. <<k, Len(G[k])>> \in Had(G, had)
      BY <2>1, <3>1 DEF Places
    <3>3. Len(G[k]) \in 1..had[k]
      BY <3>2 DEF Had
    <3> QED BY <1>1, <3>3
  <2> QED BY <2>2, <2>3
<1> QED BY <1>4, <1>5

-----------------------------------------------------------------------------
(* How even the turns are.  Among the groups that have items left, stood   *)
(* in their order, those in front of the index have had one item more in   *)
(* this round: g one more than h if the index is between them.             *)
Done(G, had) == {k \in 1..Len(G) : G[k] # <<>> /\ had[k] = Len(G[k])}
Ahead(left, g, h, p) == IF Rank(left, g) <= p /\ p < Rank(left, h) THEN 1 ELSE 0

(* Since p0 was the index at some time, two groups differ by at most one   *)
(* item for each group that had run out, besides what this round adds.     *)
Even(G, had, left, p, p0) == \A g, h \in left : g < h =>
    LET d == had[g] - had[h] - Ahead(left, g, h, p) + Ahead(left, g, h, p0)
    IN  d <= Cardinality(Done(G, had)) /\ -d <= Cardinality(Done(G, had))

TurnInv(G, st, n) ==
    /\ TurnsTaken(G, st.out, st.had, n)
    /\ st.left = {k \in 1..Len(G) : st.had[k] < Len(G[k])}
    /\ st.idx \in Nat
    /\ \E p0 \in Nat : Even(G, st.had, st.left, st.idx % Cardinality(st.left), p0)

LEMMA DoneFinite ==
    ASSUME NEW G, Groups(G), NEW had
    PROVE  IsFiniteSet(Done(G, had)) /\ Cardinality(Done(G, had)) \in Nat
<1>1. Len(G) \in Nat /\ Done(G, had) \in SUBSET (1..Len(G))
  BY DEF Groups, Done
<1> QED BY <1>1, PartFinite

LEMMA NextIndex ==
    ASSUME NEW i \in Nat, NEW c \in Nat \ {0}
    PROVE  /\ i % c \in 0..(c - 1)
           /\ (i + 1) % c = IF i % c = c - 1 THEN 0 ELSE (i % c) + 1
<1> DEFINE q == i \div c  x == i % c
<1>1. q \in Nat /\ x \in 0..(c - 1) /\ i = c * q + x
  OBVIOUS
<1>2. \A a \in Nat, y \in 0..(c - 1) : (c * a + y) % c = y
  OBVIOUS
<1> HIDE DEF q, x
<1>3. CASE x = c - 1
  <2>1. i + 1 = c * (q + 1) + 0 /\ q + 1 \in Nat /\ 0 \in 0..(c - 1)
    BY <1>1, <1>3
  <2>2. (c * (q + 1) + 0) % c = 0
    BY <1>2, <2>1
  <2> QED BY <1>1, <1>3, <2>1, <2>2 DEF x
<1>4. CASE x # c - 1
  <2>1. i + 1 = c * q + (x + 1) /\ x + 1 \in 0..(c - 1)
    BY <1>1, <1>4
  <2>2. (c * q + (x + 1)) % c = x + 1
    BY <1>1, <1>2, <2>1
  <2> QED BY <1>1, <1>4, <2>1, <2>2 DEF x
<1> QED BY <1>3, <1>4

(* The groups that have items left are within one item of each other and   *)
(* one for each group that has run out.                                    *)
LEMMA EvenBound ==
    ASSUME NEW G, Groups(G), NEW had \in [1..Len(G) -> Nat], NEW left,
           left \subseteq 1..Len(G), NEW p \in Nat, NEW p0 \in Nat,
           Even(G, had, left, p, p0), NEW g \in left, NEW h \in left
    PROVE  had[g] <= had[h] + 1 + Cardinality(Done(G, had))
<1>1. Len(G) \in Nat /\ g \in Nat /\ h \in Nat /\ had[g] \in Nat /\ had[h] \in Nat
  BY DEF Groups
<1>2. Cardinality(Done(G, had)) \in Nat
  BY DoneFinite
<1>3. /\ \A x, y \in left : \A q \in Nat : Ahead(left, x, y, q) \in {0, 1}
  BY DEF Ahead
<1>4. CASE g < h
  <2>1. had[g] - had[h] - Ahead(left, g, h, p) + Ahead(left, g, h, p0)
           <= Cardinality(Done(G, had))
    BY <1>4 DEF Even
  <2>2. Ahead(left, g, h, p) \in {0, 1} /\ Ahead(left, g, h, p0) \in {0, 1}
    BY <1>3
  <2> QED BY <1>1, <1>2, <2>1, <2>2
<1>5. CASE h < g
  <2>1. -(had[h] - had[g] - Ahead(left, h, g, p) + Ahead(left, h, g, p0))
           <= Cardinality(Done(G, had))
    BY <1>5 DEF Even
  <2>2. Ahead(left, h, g, p) \in {0, 1} /\ Ahead(left, h, g, p0) \in {0, 1}
    BY <1>3
  <2> QED BY <1>1, <1>2, <2>1, <2>2
<1>6. CASE g = h
  BY <1>1, <1>2, <1>6
<1> QED BY <1>1, <1>4, <1>5, <1>6

(* A group that keeps items: the index moves behind it.                    *)
LEMMA KeepsEven ==
    ASSUME NEW G, Groups(G), NEW had \in [1..Len(G) -> Nat], NEW left,
           left \subseteq 1..Len(G),
           NEW p \in 0..(Cardinality(left) - 1), NEW p0 \in Nat, Even(G, had, left, p, p0),
           NEW k \in left, Rank(left, k) = p + 1, had[k] + 1 < Len(G[k])
    PROVE  Even(G, NextHad(had, k), left,
                IF p = Cardinality(left) - 1 THEN 0 ELSE p + 1, p0)
<1> DEFINE C == Cardinality(left)
           had1 == NextHad(had, k)
           p1 == IF p = C - 1 THEN 0 ELSE p + 1
<1>1. Len(G) \in Nat /\ IsFiniteSet(left) /\ left \subseteq Nat /\ C \in Nat
  <2>1. Len(G) \in Nat
    BY DEF Groups
  <2>2. left \in SUBSET (1..Len(G)) /\ 1..Len(G) \subseteq Nat
    BY <2>1
  <2>3. IsFiniteSet(left) /\ Cardinality(left) \in Nat
    BY <2>1, <2>2, PartFinite
  <2> QED BY <2>1, <2>2, <2>3
<1>2. \A j \in 1..Len(G) : had1[j] = (IF j = k THEN had[j] + 1 ELSE had[j]) /\ had[j] \in Nat
  BY DEF NextHad
<1>3. Done(G, had1) = Done(G, had)
  <2>1. Len(G[k]) \in Nat /\ had[k] # Len(G[k]) /\ had[k] + 1 # Len(G[k])
    BY DEF Groups
  <2> HIDE DEF had1
  <2> QED BY <1>2, <2>1 DEF Done
<1> HIDE DEF had1
<1>4. SUFFICES ASSUME NEW g \in left, NEW h \in left, g < h
      PROVE  had1[g] - had1[h] - Ahead(left, g, h, p1) = had[g] - had[h] - Ahead(left, g, h, p)
  <2>1. \A g, h \in left : g < h =>
           had1[g] - had1[h] - Ahead(left, g, h, p1) = had[g] - had[h] - Ahead(left, g, h, p)
    BY <1>4
  <2> HIDE DEF p1
  <2>2. Even(G, had1, left, p1, p0)
    BY <1>3, <2>1 DEF Even
  <2> QED BY <2>2 DEF had1, p1
<1>5. Rank(left, g) \in 1..C /\ Rank(left, h) \in 1..C /\ Rank(left, g) < Rank(left, h)
  BY <1>1, <1>4, Ranks
<1>6. \A j \in left : j # k => Rank(left, j) # p + 1
  <2> TAKE j \in left
  <2>1. k < j \/ j < k \/ j = k
    BY <1>1
  <2>2. /\ Rank(left, j) \in 1..C
        /\ k < j => p + 1 < Rank(left, j)
        /\ j < k => Rank(left, j) < p + 1
    BY <1>1, Ranks
  <2> QED BY <1>1, <2>1, <2>2
<1>7. had[g] \in Nat /\ had[h] \in Nat
  BY <1>2
<1> DEFINE x == Rank(left, g)  y == Rank(left, h)
<1>8. x \in 1..C /\ y \in 1..C /\ x < y
  BY <1>5
<1>9. /\ Ahead(left, g, h, p) = IF x <= p /\ p < y THEN 1 ELSE 0
      /\ Ahead(left, g, h, p1) = IF x <= p1 /\ p1 < y THEN 1 ELSE 0
  BY DEF Ahead
<1>10. CASE k = g
  <2>1. x = p + 1 /\ k # h
    BY <1>4, <1>8, <1>10
  <2>2. had1[g] = had[g] + 1 /\ had1[h] = had[h]
    BY <1>2, <1>10, <2>1
  <2> HIDE DEF x, y, C
  <2> QED BY <1>1, <1>7, <1>8, <1>9, <2>1, <2>2
<1>11. CASE k = h
  <2>1. y = p + 1 /\ k # g
    BY <1>4, <1>8, <1>11
  <2>2. had1[h] = had[h] + 1 /\ had1[g] = had[g]
    BY <1>2, <1>11, <2>1
  <2> HIDE DEF x, y, C
  <2> QED BY <1>1, <1>7, <1>8, <1>9, <2>1, <2>2
<1>12. CASE k # g /\ k # h
  <2>1. x # p + 1 /\ y # p + 1
    BY <1>6, <1>12
  <2>2. had1[h] = had[h] /\ had1[g] = had[g]
    BY <1>2, <1>12
  <2> HIDE DEF x, y, C
  <2> QED BY <1>1, <1>7, <1>8, <1>9, <2>1, <2>2
<1> QED BY <1>10, <1>11, <1>12

(* A group that runs out: the rounds start anew, wherever the index is.    *)
LEMMA DropsEven ==
    ASSUME NEW G, Groups(G), NEW had \in [1..Len(G) -> Nat], NEW left,
           left \subseteq 1..Len(G), NEW p \in Nat, NEW p0 \in Nat,
           Even(G, had, left, p, p0),
           NEW k \in left, had[k] + 1 = Len(G[k]), NEW p1
    PROVE  Even(G, NextHad(had, k), left \ {k}, p1, p1)
<1> DEFINE had1 == NextHad(had, k)  rest == left \ {k}
<1>1. \A j \in 1..Len(G) : had1[j] = (IF j = k THEN had[j] + 1 ELSE had[j]) /\ had[j] \in Nat
  BY DEF NextHad
<1>2. /\ Cardinality(Done(G, had)) \in Nat
      /\ Cardinality(Done(G, had1)) = Cardinality(Done(G, had)) + 1
  <2>1. G[k] # <<>> /\ had[k] # Len(G[k])
    BY <1>1 DEF Groups
  <2> HIDE DEF had1
  <2>2. Done(G, had1) = Done(G, had) \cup {k} /\ k \notin Done(G, had)
    BY <1>1, <2>1 DEF Done
  <2> QED BY <2>2, DoneFinite, FS_AddElement
<1> HIDE DEF had1
<1>3. SUFFICES ASSUME NEW g \in rest, NEW h \in rest, g < h
      PROVE  LET d == had1[g] - had1[h] - Ahead(rest, g, h, p1) + Ahead(rest, g, h, p1)
             IN  d <= Cardinality(Done(G, had1)) /\ -d <= Cardinality(Done(G, had1))
  <2>1. Even(G, had1, rest, p1, p1)
    BY <1>3 DEF Even
  <2> QED BY <2>1 DEF had1
<1>4. had1[g] = had[g] /\ had1[h] = had[h] /\ had[g] \in Nat /\ had[h] \in Nat
  BY <1>1
<1>5. /\ had[g] <= had[h] + 1 + Cardinality(Done(G, had))
      /\ had[h] <= had[g] + 1 + Cardinality(Done(G, had))
  BY EvenBound
<1> DEFINE a == Ahead(rest, g, h, p1)
<1>6. a \in {0, 1}
  BY DEF Ahead
<1> HIDE DEF a
<1>7. /\ had1[g] - had1[h] - a + a <= Cardinality(Done(G, had1))
      /\ -(had1[g] - had1[h] - a + a) <= Cardinality(Done(G, had1))
  <2> DEFINE x == had1[g]  y == had1[h]  K == Cardinality(Done(G, had))
             K1 == Cardinality(Done(G, had1))
  <2>1. /\ x \in Nat /\ y \in Nat /\ K \in Nat /\ K1 = K + 1 /\ a \in Int
        /\ x <= y + 1 + K /\ y <= x + 1 + K
    BY <1>2, <1>4, <1>5, <1>6
  <2> HIDE DEF x, y, K, K1
  <2>2. x - y - a + a <= K1 /\ -(x - y - a + a) <= K1
    BY <2>1
  <2> QED BY <2>2 DEF x, y, K1
<1> QED BY <1>7 DEF a

-----------------------------------------------------------------------------
(* Every turn keeps the invariant, and is as even as promised.             *)
LEMMA FirstTurnInv == ASSUME NEW G, Groups(G) PROVE TurnInv(G, FirstTurn(G), 0)
<1> DEFINE had == [k \in 1..Len(G) |-> 0]
<1>1. Len(G) \in Nat /\ had \in [1..Len(G) -> Nat] /\ \A k \in 1..Len(G) : Len(G[k]) \in Nat
  BY DEF Groups
<1>2. Cardinality(Had(G, had)) = 0
  <2>1. Had(G, had) = {}
    BY DEF Had
  <2> QED BY <2>1, FS_EmptySet
<1>3. TurnsTaken(G, <<>>, had, 0)
  BY <1>1, <1>2, CountNone DEF TurnsTaken
<1>4. {k \in 1..Len(G) : G[k] # <<>>} = {k \in 1..Len(G) : had[k] < Len(G[k])}
  BY <1>1 DEF Groups
<1>5. Done(G, had) = {}
  BY <1>1 DEF Groups, Done
<1>6. ASSUME NEW left, NEW p \in Nat, left \subseteq 1..Len(G)
      PROVE  Even(G, had, left, p, p)
  <2>1. Cardinality(Done(G, had)) = 0
    BY <1>5, FS_EmptySet
  <2>2. \A g, h \in left : Ahead(left, g, h, p) \in {0, 1} /\ had[g] = 0 /\ had[h] = 0
    BY <1>6 DEF Ahead
  <2> HIDE DEF had
  <2>3. \A g, h \in left :
           LET d == had[g] - had[h] - Ahead(left, g, h, p) + Ahead(left, g, h, p)
           IN  d <= 0 /\ -d <= 0
    BY <2>2
  <2> QED BY <2>1, <2>3 DEF Even
<1> DEFINE left == {k \in 1..Len(G) : G[k] # <<>>}
<1>7. \E p0 \in Nat : Even(G, had, left, 0 % Cardinality(left), p0)
  <2>1. CASE left = {}
    BY <2>1 DEF Even
  <2>2. CASE left # {}
    <3>1. left \in SUBSET (1..Len(G))
      OBVIOUS
    <3>2. Cardinality(left) \in Nat \ {0}
      BY <1>1, <2>2, <3>1, PartFinite, FS_EmptySet
    <3>3. 0 % Cardinality(left) \in Nat
      BY <3>2
    <3> HIDE DEF left
    <3> QED BY <1>6, <3>1, <3>3
  <2> QED BY <2>1, <2>2
<1> QED BY <1>3, <1>4, <1>7 DEF TurnInv, FirstTurn

LEMMA TurnKeepsInv ==
    ASSUME NEW G, Groups(G), NEW st, NEW n \in Nat, TurnInv(G, st, n),
           n < Cardinality(Places(G))
    PROVE  /\ TurnInv(G, Turn(G, st), n + 1)
           /\ \A i \in 1..n : Turn(G, st).out[i] = st.out[i]
<1> DEFINE left == st.left  C == Cardinality(left)  p == st.idx % C
           k == AtRank(left, p + 1)  had1 == NextHad(st.had, k)
<1>1. /\ TurnsTaken(G, st.out, st.had, n) /\ st.idx \in Nat
      /\ left = {j \in 1..Len(G) : st.had[j] < Len(G[j])}
      /\ st.had \in [1..Len(G) -> Nat]
  BY DEF TurnInv, TurnsTaken
<1>2. Len(G) \in Nat /\ left \in SUBSET (1..Len(G)) /\ left # {}
  BY <1>1, TurnsLeft DEF Groups
<1>3. IsFiniteSet(left) /\ C \in Nat \ {0} /\ left \subseteq Nat
  <2>1. IsFiniteSet(left) /\ C \in Nat
    BY <1>2, PartFinite
  <2> QED BY <1>2, <2>1, FS_EmptySet
<1> HIDE DEF left
<1>4. p \in 0..(C - 1) /\ p \in Nat /\ p + 1 \in 1..C
      /\ (st.idx + 1) % C = IF p = C - 1 THEN 0 ELSE p + 1
  <2>1. p \in 0..(C - 1) /\ (st.idx + 1) % C = IF p = C - 1 THEN 0 ELSE p + 1
    BY <1>1, <1>3, NextIndex
  <2> HIDE DEF p, C
  <2> QED BY <1>3, <2>1
<1>5. k \in left /\ Rank(left, k) = p + 1
  BY <1>3, <1>4, AtEveryRank
<1>6. PICK p0 \in Nat : Even(G, st.had, left, p, p0)
  BY DEF TurnInv, left
<1> HIDE DEF p, k
<1>7. /\ k \in 1..Len(G) /\ st.had[k] \in Nat /\ Len(G[k]) \in Nat
      /\ st.had[k] < Len(G[k])
  BY <1>1, <1>2, <1>5 DEF Groups, left
<1>8. /\ TurnsTaken(G, NextOut(st.out, st.had, k), had1, n + 1)
      /\ \A i \in 1..n : NextOut(st.out, st.had, k)[i] = st.out[i]
  <2> DEFINE o == st.out  h == st.had
  <2>1. TurnsTaken(G, o, h, n) /\ k \in 1..Len(G) /\ h[k] < Len(G[k])
    BY <1>1, <1>7
  <2> HIDE DEF o, h, k
  <2>2. /\ TurnsTaken(G, NextOut(o, h, k), NextHad(h, k), n + 1)
        /\ \A i \in 1..n : NextOut(o, h, k)[i] = o[i]
    BY <2>1, TurnTakes
  <2> QED BY <2>2 DEF o, h
<1>9. \A j \in 1..Len(G) : had1[j] = IF j = k THEN st.had[j] + 1 ELSE st.had[j]
  BY <1>1 DEF NextHad
<1>10. Turn(G, st) =
         [out  |-> NextOut(st.out, st.had, k),
          had  |-> had1,
          left |-> IF st.had[k] + 1 = Len(G[k]) THEN left \ {k} ELSE left,
          idx  |-> IF st.had[k] + 1 = Len(G[k]) THEN st.idx ELSE st.idx + 1]
  BY DEF Turn, NextOut, NextHad, k, p, left
<1> HIDE DEF had1
<1>11. CASE st.had[k] + 1 = Len(G[k])
  <2>1. \A q : Even(G, had1, left \ {k}, q, q)
    BY <1>1, <1>2, <1>4, <1>5, <1>6, <1>11, DropsEven DEF had1
  <2>2. \E q \in Nat : Even(G, had1, left \ {k}, st.idx % Cardinality(left \ {k}), q)
    <3>1. CASE left \ {k} = {}
      BY <3>1 DEF Even
    <3>2. CASE left \ {k} # {}
      <4>1. left \ {k} \in SUBSET (1..Len(G))
        BY <1>2
      <4>2. Cardinality(left \ {k}) \in Nat \ {0}
        BY <1>2, <3>2, <4>1, PartFinite, FS_EmptySet
      <4>3. \A c \in Nat \ {0} : st.idx % c \in Nat
        BY <1>1
      <4> QED BY <2>1, <4>2, <4>3
    <3> QED BY <3>1, <3>2
  <2>3. left \ {k} = {j \in 1..Len(G) : had1[j] < Len(G[j])}
    BY <1>1, <1>7, <1>9, <1>11 DEF Groups
  <2>4. /\ Turn(G, st).out = NextOut(st.out, st.had, k) /\ Turn(G, st).had = had1
        /\ Turn(G, st).left = left \ {k} /\ Turn(G, st).idx = st.idx
    BY <1>10, <1>11
  <2>5. TurnsTaken(G, Turn(G, st).out, Turn(G, st).had, n + 1)
    BY <1>8, <2>4 DEF had1
  <2>6. TurnInv(G, Turn(G, st), n + 1)
    BY <1>1, <2>2, <2>3, <2>4, <2>5 DEF TurnInv
  <2> QED BY <1>8, <2>4, <2>6
<1>12. CASE st.had[k] + 1 # Len(G[k])
  <2>1. st.had[k] + 1 < Len(G[k])
    BY <1>7, <1>12
  <2>2. Even(G, had1, left, (st.idx + 1) % C, p0)
    <3>1. left \subseteq 1..Len(G)
      BY <1>2
    <3>2. Even(G, NextHad(st.had, k), left, IF p = C - 1 THEN 0 ELSE p + 1, p0)
      BY <1>1, <1>4, <1>5, <1>6, <2>1, <3>1, KeepsEven
    <3> QED BY <1>4, <3>2 DEF had1
  <2>3. left = {j \in 1..Len(G) : had1[j] < Len(G[j])}
    BY <1>1, <1>7, <1>9, <2>1 DEF Groups
  <2>4. /\ Turn(G, st).out = NextOut(st.out, st.had, k) /\ Turn(G, st).had = had1
        /\ Turn(G, st).left = left /\ Turn(G, st).idx = st.idx + 1
    BY <1>10, <1>12
  <2>5. st.idx + 1 \in Nat
    BY <1>1
  <2> QED BY <1>6, <1>8, <2>2, <2>3, <2>4, <2>5 DEF TurnInv, had1
<1> QED BY <1>11, <1>12

LEMMA InvAfterTurns ==
    ASSUME NEW G, Groups(G), NEW n \in 0..Cardinality(Places(G))
    PROVE  /\ TurnInv(G, Turns(G)[n], n)
           /\ \A m \in 0..n : \A i \in 1..m : Turns(G)[n].out[i] = Turns(G)[m].out[i]
<1> DEFINE T == Cardinality(Places(G))
           Good(m) == /\ TurnInv(G, Turns(G)[m], m)
                      /\ \A j \in 0..m : \A i \in 1..j :
                            Turns(G)[m].out[i] = Turns(G)[j].out[i]
           N == {m \in Nat : m <= T => Good(m)}
<1>1. T \in Nat
  BY PlacesFinite
<1>2. 0 \in N
  <2>1. TurnInv(G, Turns(G)[0], 0)
    BY FirstTurnInv, TurnAfterTurn
  <2>2. \A j \in 0..0 : j = 0
    OBVIOUS
  <2> QED BY <2>1, <2>2
<1>3. ASSUME NEW m \in Nat, m \in N PROVE m + 1 \in N
  <2> SUFFICES ASSUME m + 1 <= T PROVE Good(m + 1)
    OBVIOUS
  <2>1. m <= T /\ m < T
    BY <1>1
  <2>2. Good(m) /\ Turns(G)[m + 1] = Turn(G, Turns(G)[m])
    BY <1>3, <2>1, TurnAfterTurn
  <2>3. /\ TurnInv(G, Turns(G)[m + 1], m + 1)
        /\ \A i \in 1..m : Turns(G)[m + 1].out[i] = Turns(G)[m].out[i]
    BY <2>1, <2>2, TurnKeepsInv
  <2>4. ASSUME NEW j \in 0..(m + 1), NEW i \in 1..j
        PROVE  Turns(G)[m + 1].out[i] = Turns(G)[j].out[i]
    <3>1. CASE j = m + 1
      BY <3>1
    <3>2. CASE j # m + 1
      <4>1. j \in 0..m /\ i \in 1..m
        BY <3>2
      <4> QED BY <2>2, <2>3, <4>1
    <3> QED BY <3>1, <3>2
  <2> QED BY <2>3, <2>4
<1>4. n \in Nat /\ n <= T
  BY <1>1
<1>5. n \in N
  BY <1>2, <1>3, <1>4, Induction
<1> QED BY <1>4, <1>5

(* The order of the turns: every item of every group once, the items of a  *)
(* group in their order, and evenly.                                       *)
Order(G) == Turns(G)[Cardinality(Places(G))].out
RanOut(G, out, n) == {k \in 1..Len(G) : G[k] # <<>> /\ Count(out, 1, k, n) = Len(G[k])}

LEMMA OrderOfTurns ==
    ASSUME NEW G, Groups(G)
    PROVE  /\ Order(G) \in Seq(Nat \X Nat) /\ Len(Order(G)) = Cardinality(Places(G))
           /\ \A i \in 1..Len(Order(G)) : LET k == Order(G)[i][1] IN
                 k \in 1..Len(G) /\ Order(G)[i][2] = Count(Order(G), 1, k, i)
           /\ \A k \in 1..Len(G) : Count(Order(G), 1, k, Len(Order(G))) = Len(G[k])
           /\ \A n \in 0..Len(Order(G)) : \A g, h \in 1..Len(G) :
                 /\ Count(Order(G), 1, g, n) < Len(G[g])
                 /\ Count(Order(G), 1, h, n) < Len(G[h])
                 => Count(Order(G), 1, g, n) <= Count(Order(G), 1, h, n) + 1
                       + Cardinality(RanOut(G, Order(G), n))
<1> DEFINE T == Cardinality(Places(G))  out == Turns(G)[T].out
<1>1. T \in Nat /\ T \in 0..T /\ out = Order(G)
  BY PlacesFinite DEF Order
<1>2. TurnsTaken(G, out, Turns(G)[T].had, T)
  BY <1>1, InvAfterTurns DEF TurnInv
<1>3. \A k \in 1..Len(G) : Count(out, 1, k, T) = Len(G[k])
  <2>1. \A k \in 1..Len(G) : Turns(G)[T].had[k] = Len(G[k])
    BY <1>1, <1>2, TurnsLeft
  <2> QED BY <1>2, <2>1 DEF TurnsTaken
<1>4. ASSUME NEW n \in 0..T, NEW g \in 1..Len(G), NEW h \in 1..Len(G),
             Count(out, 1, g, n) < Len(G[g]), Count(out, 1, h, n) < Len(G[h])
      PROVE  Count(out, 1, g, n) <= Count(out, 1, h, n) + 1 + Cardinality(RanOut(G, out, n))
  <2> DEFINE st == Turns(G)[n]
  <2>1. TurnInv(G, st, n) /\ \A i \in 1..n : out[i] = st.out[i]
    BY <1>1, InvAfterTurns
  <2>2. n \in Nat
    OBVIOUS
  <2>3. \A k : Count(out, 1, k, n) = Count(st.out, 1, k, n)
    BY <2>1, <2>2, CountSame
  <2>4. st.had \in [1..Len(G) -> Nat] /\ \A k \in 1..Len(G) : st.had[k] = Count(out, 1, k, n)
    BY <2>1, <2>3 DEF TurnInv, TurnsTaken
  <2>5. RanOut(G, out, n) = Done(G, st.had)
    BY <2>4 DEF RanOut, Done
  <2>6. g \in st.left /\ h \in st.left /\ st.left \subseteq 1..Len(G)
    BY <1>4, <2>1, <2>4 DEF TurnInv
  <2>7. PICK p0 \in Nat : Even(G, st.had, st.left, st.idx % Cardinality(st.left), p0)
    BY <2>1 DEF TurnInv
  <2>8. st.idx % Cardinality(st.left) \in Nat
    <3>1. Len(G) \in Nat /\ st.left \in SUBSET (1..Len(G)) /\ st.left # {} /\ st.idx \in Nat
      BY <2>1, <2>6 DEF Groups, TurnInv
    <3>2. Cardinality(st.left) \in Nat \ {0}
      BY <3>1, PartFinite, FS_EmptySet
    <3>3. \A i \in Nat, c \in Nat \ {0} : i % c \in Nat
      OBVIOUS
    <3> QED BY <3>1, <3>2, <3>3
  <2> HIDE DEF st
  <2>9. st.had[g] <= st.had[h] + 1 + Cardinality(Done(G, st.had))
    BY <2>4, <2>6, <2>7, <2>8, EvenBound
  <2> QED BY <2>4, <2>5, <2>9
<1>5. /\ out \in Seq(Nat \X Nat) /\ Len(out) = T
      /\ \A i \in 1..T : LET k == out[i][1] IN
            k \in 1..Len(G) /\ out[i][2] = Count(out, 1, k, i)
  BY <1>2 DEF TurnsTaken
<1> HIDE DEF out, T
<1> QED BY <1>1, <1>3, <1>4, <1>5 DEF T

-----------------------------------------------------------------------------
(* Groups of items that name their group, in component c.                  *)
Tagged(G, c, t) ==
    /\ Groups(G)
    /\ \A k, h \in 1..Len(G) : t[k] = t[h] => k = h
    /\ \A k \in 1..Len(G) : \A j \in 1..Len(G[k]) : G[k][j][c] = t[k]

LEMMA FunctionIsSeq ==
    ASSUME NEW n \in Nat, NEW R, NEW f \in [1..n -> R]
    PROVE  f \in Seq(R) /\ Len(f) = n
OBVIOUS

ItemsAsOrdered(G, r, c, t) ==
    \A i \in 1..Len(Order(G)) : LET k == Order(G)[i][1] IN
        /\ k \in 1..Len(G) /\ Count(Order(G), 1, k, i) \in 1..Len(G[k])
        /\ r[i] = G[k][Count(Order(G), 1, k, i)]
        /\ r[i][c] = t[k]
CountsAsOrdered(G, r, c, t) ==
    \A k \in 1..Len(G) : \A n \in 0..Len(Order(G)) :
        Count(r, c, t[k], n) = Count(Order(G), 1, k, n)

(* The items of an interleaving, and how many of a group come first.       *)
LEMMA InterleavedItems ==
    ASSUME NEW G, NEW c, NEW t, Tagged(G, c, t)
    PROVE  /\ Len(Interleave(G)) = Len(Order(G)) /\ Len(Order(G)) \in Nat
           /\ Interleave(G) \in Seq({Interleave(G)[i] : i \in 1..Len(Order(G))})
           /\ ItemsAsOrdered(G, Interleave(G), c, t) /\ CountsAsOrdered(G, Interleave(G), c, t)
<1> DEFINE out == Order(G)  N == Len(Order(G))  r == Interleave(G)
<1>1. /\ Groups(G) /\ N \in Nat
      /\ \A i \in 1..N : out[i][1] \in 1..Len(G) /\ out[i][2] = Count(out, 1, out[i][1], i)
      /\ \A k \in 1..Len(G) : Count(out, 1, k, N) = Len(G[k])
  BY OrderOfTurns, PlacesFinite DEF Tagged
<1>2. r = [i \in 1..N |-> G[out[i][1]][out[i][2]]]
  BY DEF Interleave, Order
<1> HIDE DEF out, N, r
<1>3. r \in [1..N -> {r[i] : i \in 1..N}]
  BY <1>2
<1>4. r \in Seq({r[i] : i \in 1..N}) /\ Len(r) = N
  BY <1>1, <1>3, FunctionIsSeq
<1>5. ASSUME NEW i \in 1..N
      PROVE  LET k == out[i][1] IN
                 /\ k \in 1..Len(G) /\ Count(out, 1, k, i) \in 1..Len(G[k])
                 /\ r[i] = G[k][Count(out, 1, k, i)]
                 /\ r[i][c] = t[k]
  <2> DEFINE k == out[i][1]
  <2>1. k \in 1..Len(G) /\ out[i][2] = Count(out, 1, k, i)
    BY <1>1
  <2>2. i - 1 \in Nat /\ i \in Nat /\ (i - 1) + 1 = i /\ i <= N
    BY <1>1
  <2>3. Count(out, 1, k, i) = Count(out, 1, k, i - 1) + 1
    BY <2>2, CountNext
  <2>4. Count(out, 1, k, i - 1) \in Nat /\ Count(out, 1, k, i) \in Nat
    BY <2>2, CountIsNumber
  <2>5. Count(out, 1, k, i) <= Len(G[k]) /\ Len(G[k]) \in Nat
    BY <1>1, <2>1, <2>2, CountGrows DEF Groups
  <2>6. Count(out, 1, k, i) \in 1..Len(G[k])
    BY <2>3, <2>4, <2>5
  <2>7. r[i] = G[k][Count(out, 1, k, i)]
    BY <1>2, <2>1
  <2> QED BY <2>1, <2>6, <2>7 DEF Tagged
<1>6. ASSUME NEW k \in 1..Len(G), NEW n \in 0..N
      PROVE  Count(r, c, t[k], n) = Count(out, 1, k, n)
  <2>1. \A i \in 1..n : i \in 1..N
    BY <1>1
  <2>2. \A i \in 1..n : r[i][c] = t[out[i][1]] /\ out[i][1] \in 1..Len(G)
    BY <1>5, <2>1
  <2>3. {i \in 1..n : r[i][c] = t[k]} = {i \in 1..n : out[i][1] = k}
    BY <2>2 DEF Tagged
  <2> QED BY <2>3 DEF Count
<1>7. ItemsAsOrdered(G, r, c, t) /\ CountsAsOrdered(G, r, c, t)
  BY <1>5, <1>6 DEF ItemsAsOrdered, CountsAsOrdered, out, N
<1> QED BY <1>1, <1>4, <1>7 DEF N, r

(* An interleaving is a merge of its groups.                               *)
Merged(r, G, c, t) ==
    /\ Len(r) \in Nat /\ r \in Seq({r[i] : i \in 1..Len(r)})
    /\ \A i \in 1..Len(r) : \E k \in 1..Len(G) : r[i][c] = t[k]
    /\ \A k \in 1..Len(G) : \A i \in 1..Len(r) : r[i][c] = t[k] =>
          /\ Count(r, c, t[k], i) \in 1..Len(G[k])
          /\ r[i] = G[k][Count(r, c, t[k], i)]
    /\ \A k \in 1..Len(G) : Count(r, c, t[k], Len(r)) = Len(G[k])

LEMMA InterleaveMerges ==
    ASSUME NEW G, NEW c, NEW t, Tagged(G, c, t)
    PROVE  Merged(Interleave(G), G, c, t)
<1> DEFINE r == Interleave(G)  out == Order(G)  N == Len(Order(G))
<1>1. /\ Len(r) = N /\ N \in Nat /\ r \in Seq({r[i] : i \in 1..N})
      /\ \A i \in 1..N : LET k == out[i][1] IN
            /\ k \in 1..Len(G) /\ Count(out, 1, k, i) \in 1..Len(G[k])
            /\ r[i] = G[k][Count(out, 1, k, i)]
            /\ r[i][c] = t[k]
      /\ \A k \in 1..Len(G) : \A n \in 0..N : Count(r, c, t[k], n) = Count(out, 1, k, n)
  <2>1. ItemsAsOrdered(G, r, c, t) /\ CountsAsOrdered(G, r, c, t)
    BY InterleavedItems
  <2>2. Len(r) = N /\ N \in Nat /\ r \in Seq({r[i] : i \in 1..N})
    BY InterleavedItems
  <2> HIDE DEF r
  <2> QED BY <2>1, <2>2 DEF ItemsAsOrdered, CountsAsOrdered
<1>2. \A k \in 1..Len(G) : Count(out, 1, k, N) = Len(G[k])
  BY OrderOfTurns DEF Tagged
<1> HIDE DEF r, out, N
<1>3. ASSUME NEW k \in 1..Len(G), NEW i \in 1..N, r[i][c] = t[k]
      PROVE  Count(r, c, t[k], i) \in 1..Len(G[k]) /\ r[i] = G[k][Count(r, c, t[k], i)]
  <2>1. out[i][1] = k
    <3>1. out[i][1] \in 1..Len(G) /\ t[out[i][1]] = t[k]
      BY <1>1, <1>3
    <3> QED BY <3>1 DEF Tagged
  <2>2. i \in 0..N
    BY <1>1
  <2> QED BY <1>1, <2>1, <2>2
<1>4. N \in 0..N
  BY <1>1
<1>5. \A i \in 1..N : \E k \in 1..Len(G) : r[i][c] = t[k]
  BY <1>1
<1>6. Merged(r, G, c, t)
  BY <1>1, <1>2, <1>3, <1>4, <1>5 DEF Merged
<1> QED BY <1>6 DEF r

(* Every part of an interleaving that starts at its beginning is fair: the *)
(* groups that have run out are among those that are closed in it.         *)
LEMMA InterleaveFair ==
    ASSUME NEW G, NEW c, NEW t, Tagged(G, c, t),
           NEW q, Len(q) \in 0..Len(Interleave(G)),
           \A i \in 1..Len(q) : q[i] = Interleave(G)[i]
    PROVE  Fair(q, c)
<1> DEFINE r == Interleave(G)  out == Order(G)  N == Len(Order(G))  L == Len(q)
           groups == {q[i][c] : i \in 1..L}
           Open(n) == {g \in groups : Count(q, c, g, n) < Count(q, c, g, L)}
<1>1. /\ N \in Nat /\ L \in 0..N
      /\ \A i \in 1..N : out[i][1] \in 1..Len(G) /\ r[i][c] = t[out[i][1]]
      /\ \A k \in 1..Len(G) : \A n \in 0..N : Count(r, c, t[k], n) = Count(out, 1, k, n)
  <2>1. ItemsAsOrdered(G, r, c, t) /\ CountsAsOrdered(G, r, c, t)
    BY InterleavedItems
  <2>2. N \in Nat /\ L \in 0..N
    BY InterleavedItems
  <2> HIDE DEF r
  <2> QED BY <2>1, <2>2 DEF ItemsAsOrdered, CountsAsOrdered
<1>2. /\ Groups(G) /\ \A k \in 1..Len(G) : Count(out, 1, k, N) = Len(G[k])
      /\ \A n \in 0..N : \A g, h \in 1..Len(G) :
            Count(out, 1, g, n) < Len(G[g]) /\ Count(out, 1, h, n) < Len(G[h])
            => Count(out, 1, g, n) <= Count(out, 1, h, n) + 1 + Cardinality(RanOut(G, out, n))
  BY OrderOfTurns DEF Tagged
<1>3. \A i \in 1..L : q[i] = r[i]
  OBVIOUS
<1> HIDE DEF r, out, N
<1>4. \A n \in 0..L : \A k \in 1..Len(G) : Count(q, c, t[k], n) = Count(out, 1, k, n)
  <2> TAKE n \in 0..L
  <2> TAKE k \in 1..Len(G)
  <2>1. n \in Nat /\ n \in 0..N /\ \A i \in 1..n : i \in 1..L
    BY <1>1
  <2>2. Count(q, c, t[k], n) = Count(r, c, t[k], n)
    BY <1>3, <2>1, CountSame
  <2> QED BY <1>1, <2>1, <2>2
<1>5. \A g \in groups : \E k \in 1..Len(G) : g = t[k]
  <2>1. \A i \in 1..L : i \in 1..N /\ q[i][c] = t[out[i][1]] /\ out[i][1] \in 1..Len(G)
    BY <1>1, <1>3
  <2> QED BY <2>1
<1>6. SUFFICES ASSUME NEW n \in 1..L, NEW g \in Open(n), NEW h \in Open(n)
      PROVE  Count(q, c, g, n) <= Count(q, c, h, n) + 1 + Cardinality(groups \ Open(n))
  BY <1>6 DEF Fair
<1>7. n \in 0..L /\ n \in 0..N /\ n \in Nat /\ L \in 0..L /\ L \in Nat /\ n <= L /\ L <= N
  BY <1>1
<1> HIDE DEF L
<1>8. \A k \in 1..Len(G) : Count(out, 1, k, L) <= Len(G[k]) /\ Count(out, 1, k, n) \in Nat
                            /\ Count(out, 1, k, L) \in Nat /\ Len(G[k]) \in Nat
  <2> TAKE k \in 1..Len(G)
  <2>1. Count(out, 1, k, L) <= Count(out, 1, k, N)
    BY <1>1, <1>7, CountGrows
  <2> QED BY <1>1, <1>2, <1>7, <2>1, CountIsNumber DEF Groups
<1>9. PICK a \in 1..Len(G), b \in 1..Len(G) : g = t[a] /\ h = t[b]
  BY <1>5
<1>10. /\ Count(q, c, g, n) = Count(out, 1, a, n) /\ Count(out, 1, a, n) < Len(G[a])
       /\ Count(q, c, h, n) = Count(out, 1, b, n) /\ Count(out, 1, b, n) < Len(G[b])
  <2>1. /\ Count(q, c, g, n) < Count(q, c, g, L) /\ Count(q, c, g, n) = Count(out, 1, a, n)
        /\ Count(q, c, g, L) = Count(out, 1, a, L)
        /\ Count(q, c, h, n) < Count(q, c, h, L) /\ Count(q, c, h, n) = Count(out, 1, b, n)
        /\ Count(q, c, h, L) = Count(out, 1, b, L)
    BY <1>4, <1>7, <1>9
  <2> QED BY <1>8, <2>1
<1>11. Count(out, 1, a, n) <= Count(out, 1, b, n) + 1 + Cardinality(RanOut(G, out, n))
  BY <1>2, <1>7, <1>10
<1>12. /\ Cardinality(RanOut(G, out, n)) <= Cardinality(groups \ Open(n))
       /\ Cardinality(groups \ Open(n)) \in Nat
  <2> DEFINE R == RanOut(G, out, n)  f == [k \in R |-> t[k]]
  <2>1. ASSUME NEW k \in R PROVE t[k] \in groups \ Open(n)
    <3>1. k \in 1..Len(G) /\ G[k] # <<>> /\ Count(out, 1, k, n) = Len(G[k])
      BY <2>1 DEF RanOut
    <3>2. Count(q, c, t[k], n) = Len(G[k]) /\ Count(q, c, t[k], L) = Count(out, 1, k, L)
      BY <1>4, <1>7, <3>1
    <3>3. t[k] \notin Open(n)
      BY <1>8, <3>1, <3>2
    <3>4. Len(G[k]) # 0
      BY <1>2, <3>1 DEF Groups
    <3>5. t[k] \in groups
      <4> SUFFICES ASSUME t[k] \notin groups PROVE FALSE
        OBVIOUS
      <4>1. \A i \in 1..n : i \in 1..L
        BY <1>7
      <4>2. {i \in 1..n : q[i][c] = t[k]} = {}
        BY <4>1
      <4> QED BY <3>2, <3>4, <4>2, FS_EmptySet DEF Count
    <3> QED BY <3>3, <3>5
  <2>2. f \in Injection(R, groups \ Open(n))
    <3>1. \A k, j \in R : t[k] = t[j] => k = j
      BY DEF Tagged, RanOut
    <3> HIDE DEF R
    <3> QED BY <2>1, <3>1 DEF Injection, IsInjective
  <2>3. IsFiniteSet(groups \ Open(n))
    <3> DEFINE s == [i \in 1..L |-> q[i][c]]
    <3>1. s \in Surjection(1..L, groups)
      BY DEF Surjection
    <3>2. IsFiniteSet(1..L)
      BY <1>7, FS_Interval
    <3>3. IsFiniteSet(groups)
      BY <3>1, <3>2, FS_Surjection
    <3> QED BY <3>3, FS_Subset
  <2> QED BY <2>2, <2>3, FS_Injection, FS_CardinalityType
<1> HIDE DEF groups, Open
<1>13. Cardinality(RanOut(G, out, n)) \in Nat /\ Cardinality(groups \ Open(n)) \in Nat
  <2>1. Len(G) \in Nat /\ RanOut(G, out, n) \in SUBSET (1..Len(G))
    BY <1>2 DEF Groups, RanOut
  <2>2. Cardinality(RanOut(G, out, n)) \in Nat
    BY <2>1, PartFinite
  <2> QED BY <1>12, <2>2, FS_CardinalityType
<1> QED BY <1>8, <1>10, <1>11, <1>12, <1>13

-----------------------------------------------------------------------------
(* The items of a family that was loaded, and of a plan.                   *)
LEMMA DistinctNames ==
    ASSUME NEW f \in Family
    PROVE  /\ \A i, j \in 1..Len(Recipe[f]) : Recipe[f][i].name = Recipe[f][j].name => i = j
           /\ Len(Recipe[f]) \in Nat
           /\ Names[f] = {Recipe[f][i].name : i \in 1..Len(Recipe[f])}
<1>1. f \in DOMAIN Recipe
  BY DataAssumption
<1>2. Recipe[f] \in {LongctxFiles, IfevalFiles, ToolsFiles, MathFiles,
                     KnowledgeFiles, CodeFiles}
  BY <1>1 DEF Recipe
<1> DEFINE Good(r) == \A i, j \in 1..Len(r) : r[i].name = r[j].name => i = j
<1>3. Good(LongctxFiles)
  BY DEF LongctxFiles, File
<1>4. Good(IfevalFiles)
  BY DEF IfevalFiles, File
<1>5. Good(ToolsFiles)
  BY DEF ToolsFiles, File
<1>6. Good(MathFiles)
  BY DEF MathFiles, File
<1>7. Good(KnowledgeFiles)
  BY DEF KnowledgeFiles, File
<1>8. Good(CodeFiles)
  BY DEF CodeFiles, File
<1> HIDE DEF Good
<1>9. Good(Recipe[f])
  BY <1>2, <1>3, <1>4, <1>5, <1>6, <1>7, <1>8
<1>10. Len(Recipe[f]) \in 1..4
  BY OnlyPromptsPinned
<1> QED BY <1>1, <1>9, <1>10 DEF Good, Names

(* The groups that are interleaved within a family, and their names.       *)
Turning(f, n) == [j \in 1..SubFamilies[f] |-> ItemsOf(f, j, n)]
SubNumbers(f) == [j \in 1..SubFamilies[f] |-> j]

LEMMA SubFamilyCount ==
    ASSUME NEW f \in Family PROVE SubFamilies[f] \in Nat
<1>1. f \in {"longctx", "ifeval", "tools", "math", "knowledge", "code"}
  BY DataAssumption DEF Recipe
<1> QED BY <1>1 DEF SubFamilies

LEMMA SizeIsNumber ==
    ASSUME NEW f \in Family, NEW n \in [Names[f] -> Nat], NEW j
    PROVE  SizeOf(f, j, n) \in Nat
<1> DEFINE L == Len(Recipe[f])
           piles == {{s} \X (1..n[s]) : s \in Names[f]}
           name == [i \in 1..L |-> Recipe[f][i].name]
           pile == [s \in Names[f] |-> {s} \X (1..n[s])]
<1>1. IsFiniteSet(Names[f])
  <2>1. L \in Int /\ 1 \in Int
    BY DistinctNames
  <2>3. Names[f] = {name[i] : i \in 1..L}
    <3>1. Names[f] = {Recipe[f][i].name : i \in 1..L}
      BY DistinctNames
    <3>2. \A i \in 1..L : name[i] = Recipe[f][i].name
      OBVIOUS
    <3> HIDE DEF L, name
    <3> QED BY <3>1, <3>2
  <2>2. name \in Surjection(1..L, Names[f])
    BY <2>3 DEF Surjection
  <2> QED BY <2>1, <2>2, FS_Interval, FS_Surjection
<1>2. IsFiniteSet(piles)
  <2>1. pile \in Surjection(Names[f], piles)
    BY DEF Surjection
  <2> QED BY <1>1, <2>1, FS_Surjection
<1>3. ASSUME NEW T \in piles PROVE IsFiniteSet(T)
  <2>1. PICK s \in Names[f] : T = {s} \X (1..n[s])
    OBVIOUS
  <2>2. n[s] \in Int /\ 1 \in Int
    OBVIOUS
  <2>3. IsFiniteSet({s}) /\ IsFiniteSet(1..n[s])
    BY <2>2, FS_Singleton, FS_Interval
  <2> QED BY <2>1, <2>3, FS_Product
<1>4. IsFiniteSet(Held(f, n))
  BY <1>2, <1>3, FS_UNION DEF Held
<1> DEFINE H == Held(f, n)  part == {x \in H : SubOf(x[1], x[2]) = j}
<1>5. part \subseteq H
  OBVIOUS
<1> HIDE DEF H
<1>6. IsFiniteSet(part)
  BY <1>4, <1>5, FS_Subset DEF H
<1>7. Cardinality(part) \in Nat
  BY <1>6, FS_CardinalityType
<1> QED BY <1>7 DEF SizeOf, H

LEMMA SubFamiliesTagged ==
    ASSUME NEW f \in Family, NEW n \in [Names[f] -> Nat]
    PROVE  /\ Tagged(Turning(f, n), 2, SubNumbers(f))
           /\ Len(Turning(f, n)) = SubFamilies[f]
           /\ \A j \in 1..SubFamilies[f] :
                 /\ SubNumbers(f)[j] = j
                 /\ Len(Turning(f, n)[j]) = SizeOf(f, j, n)
                 /\ \A i \in 1..SizeOf(f, j, n) : Turning(f, n)[j][i] = <<f, j, i>>
<1> DEFINE G == Turning(f, n)  t == SubNumbers(f)  L == SubFamilies[f]
<1>1. L \in Nat /\ \A j \in 1..L : t[j] = j
  BY SubFamilyCount DEF SubNumbers
<1>2. Len(G) = L /\ \A j \in 1..L : G[j] = [i \in 1..SizeOf(f, j, n) |-> <<f, j, i>>]
  BY <1>1 DEF Turning, ItemsOf
<1>3. ASSUME NEW j \in 1..L
      PROVE  /\ Len(G[j]) = SizeOf(f, j, n) /\ Len(G[j]) \in Nat
             /\ G[j] = <<>> <=> Len(G[j]) = 0
             /\ \A i \in 1..SizeOf(f, j, n) : G[j][i] = <<f, j, i>>
  <2> DEFINE m == SizeOf(f, j, n)
  <2>1. m \in Nat /\ G[j] = [i \in 1..m |-> <<f, j, i>>]
    BY <1>2, SizeIsNumber
  <2> HIDE DEF m, G
  <2> QED BY <2>1 DEF m
<1> HIDE DEF G, L
<1>4. \A k, h \in 1..L : t[k] = t[h] => k = h
  BY <1>1
<1> HIDE DEF t
<1>5. Tagged(G, 2, t)
  <2>1. \A k \in 1..L : \A i \in 1..Len(G[k]) : G[k][i][2] = t[k]
    BY <1>1, <1>3
  <2> QED BY <1>1, <1>2, <1>3, <1>4, <2>1 DEF Tagged, Groups
<1> QED BY <1>1, <1>2, <1>3, <1>5 DEF G, t, L

LEMMA CutIsPrefix ==
    ASSUME NEW R, NEW r \in Seq(R), NEW limit \in Nat \cup {NoLimit}
    PROVE  /\ Len(Cut(r, limit)) \in 0..Len(r) /\ Cut(r, limit) \in Seq(R)
           /\ \A i \in 1..Len(Cut(r, limit)) : Cut(r, limit)[i] = r[i]
           /\ limit = NoLimit => Cut(r, limit) = r
<1>1. CASE limit = NoLimit
  BY <1>1 DEF Cut
<1>2. CASE limit # NoLimit
  <2> DEFINE m == IF limit < Len(r) THEN limit ELSE Len(r)
  <2>1. m \in 0..Len(r) /\ Cut(r, limit) = SubSeq(r, 1, m)
    BY <1>2 DEF Cut
  <2> HIDE DEF m
  <2>2. m \in Nat /\ m <= Len(r)
    BY <2>1
  <2>3. /\ Len(SubSeq(r, 1, m)) = m /\ SubSeq(r, 1, m) \in Seq(R)
        /\ \A i \in 1..m : SubSeq(r, 1, m)[i] = r[i]
    BY <2>2
  <2> QED BY <1>2, <2>1, <2>3
<1> QED BY <1>1, <1>2

(* What a family is loaded as: its items, each sub-family in its order and *)
(* evenly, all of them if there is no limit.                               *)
LoadedWell(items, f, n, limit) ==
    /\ Len(items) \in Nat /\ items = [i \in 1..Len(items) |-> items[i]]
    /\ \A i \in 1..Len(items) :
          items[i][1] = f /\ items[i][3] = Count(items, 2, items[i][2], i)
    /\ limit = NoLimit => \A j \in 1..SubFamilies[f] :
          Count(items, 2, j, Len(items)) = SizeOf(f, j, n)
    /\ Fair(items, 2)

LEMMA FamilyLoaded ==
    ASSUME NEW f \in Family, NEW n \in [Names[f] -> Nat], NEW limit \in Nat \cup {NoLimit}
    PROVE  LoadedWell(LoadItems(f, n, limit), f, n, limit)
<1> DEFINE G == Turning(f, n)  t == SubNumbers(f)  r == Interleave(G)
           items == LoadItems(f, n, limit)  L == SubFamilies[f]
<1>1. /\ Tagged(G, 2, t) /\ Len(G) = L
      /\ \A j \in 1..L : /\ t[j] = j /\ Len(G[j]) = SizeOf(f, j, n)
                         /\ \A i \in 1..SizeOf(f, j, n) : G[j][i] = <<f, j, i>>
  BY SubFamiliesTagged
<1>2. items = Cut(r, limit)
  BY DEF LoadItems, Turning
<1> HIDE DEF G, t, items, L
<1>4. /\ Len(r) \in Nat /\ r \in Seq({r[i] : i \in 1..Len(r)})
      /\ \A i \in 1..Len(r) : \E k \in 1..Len(G) : r[i][2] = t[k]
      /\ \A k \in 1..Len(G) : \A i \in 1..Len(r) : r[i][2] = t[k] =>
            /\ Count(r, 2, t[k], i) \in 1..Len(G[k])
            /\ r[i] = G[k][Count(r, 2, t[k], i)]
      /\ \A k \in 1..Len(G) : Count(r, 2, t[k], Len(r)) = Len(G[k])
  <2>1. Merged(r, G, 2, t)
    BY <1>1, InterleaveMerges
  <2> HIDE DEF r
  <2> QED BY <2>1 DEF Merged
<1> DEFINE R == {r[i] : i \in 1..Len(r)}
<1> HIDE DEF r
<1>5. /\ Len(items) \in 0..Len(r) /\ items \in Seq(R)
      /\ \A i \in 1..Len(items) : items[i] = r[i]
      /\ limit = NoLimit => items = r
  <2>1. r \in Seq(R)
    BY <1>4
  <2> HIDE DEF R
  <2> QED BY <1>2, <2>1, CutIsPrefix
<1>6. ASSUME NEW i \in 1..Len(items)
      PROVE  items[i][1] = f /\ items[i][3] = Count(items, 2, items[i][2], i)
  <2>1. i \in 1..Len(r) /\ i \in Nat /\ items[i] = r[i]
    BY <1>4, <1>5
  <2>2. PICK k \in 1..Len(G) : r[i][2] = t[k]
    BY <1>4, <2>1
  <2> DEFINE m == Count(r, 2, t[k], i)
  <2>3. m \in 1..Len(G[k]) /\ r[i] = G[k][m]
    BY <1>4, <2>1, <2>2
  <2> HIDE DEF m
  <2>4. r[i] = <<f, t[k], m>>
    BY <1>1, <2>2, <2>3
  <2>5. Count(items, 2, t[k], i) = m
    <3>1. \A x \in 1..i : items[x] = r[x]
      <4>1. \A x \in 1..i : x \in 1..Len(items)
        BY <2>1, <1>5
      <4> QED BY <4>1, <1>5
    <3> QED BY <2>1, <3>1, CountSame DEF m
  <2> QED BY <2>1, <2>4, <2>5
<1>7. ASSUME limit = NoLimit, NEW j \in 1..L
      PROVE  Count(items, 2, j, Len(items)) = SizeOf(f, j, n)
  BY <1>1, <1>4, <1>5, <1>7
<1>8. Fair(items, 2)
  <2>1. Len(items) \in 0..Len(Interleave(G)) /\ \A i \in 1..Len(items) : items[i] = Interleave(G)[i]
    BY <1>5 DEF r
  <2> QED BY <1>1, <2>1, InterleaveFair
<1>9. Len(items) \in Nat /\ items = [i \in 1..Len(items) |-> items[i]]
  BY <1>4, <1>5
<1> QED BY <1>6, <1>7, <1>8, <1>9 DEF LoadedWell, items, L

LEMMA PlanOfLoaded ==
    ASSUME NEW fams \in Seq(Family), IsInjective(fams), NEW loaded, NEW n, NEW limit,
           Len(loaded) = Len(fams),
           \A k \in 1..Len(fams) : LoadedWell(loaded[k], fams[k], n[k], limit)
    PROVE  Merged(Interleave(loaded), loaded, 1, fams) /\ Fair(Interleave(loaded), 1)
<1>1. Len(fams) \in Nat
  OBVIOUS
<1>2. \A k \in 1..Len(fams) :
         /\ Len(loaded[k]) \in Nat
         /\ loaded[k] = [i \in 1..Len(loaded[k]) |-> loaded[k][i]]
         /\ \A j \in 1..Len(loaded[k]) : loaded[k][j][1] = fams[k]
  BY DEF LoadedWell
<1>3. ASSUME NEW k \in 1..Len(fams) PROVE loaded[k] = <<>> <=> Len(loaded[k]) = 0
  <2> DEFINE q == loaded[k]
  <2>1. Len(q) \in Nat /\ q = [i \in 1..Len(q) |-> q[i]]
    BY <1>2, <1>3
  <2> HIDE DEF q
  <2>2. q = <<>> <=> Len(q) = 0
    BY <2>1
  <2> QED BY <2>2 DEF q
<1>4. \A k, h \in 1..Len(fams) : fams[k] = fams[h] => k = h
  BY DEF IsInjective
<1>5. Tagged(loaded, 1, fams)
  BY <1>1, <1>2, <1>3, <1>4 DEF Tagged, Groups
<1>6. Merged(Interleave(loaded), loaded, 1, fams)
  BY <1>5, InterleaveMerges
<1>7. Fair(Interleave(loaded), 1)
  <2> DEFINE r == Interleave(loaded)
  <2>1. Len(r) \in 0..Len(r)
    BY <1>6 DEF Merged
  <2>2. Len(r) \in 0..Len(Interleave(loaded)) /\ \A i \in 1..Len(r) : r[i] = Interleave(loaded)[i]
    BY <2>1
  <2> QED BY <1>5, <2>2, InterleaveFair
<1> QED BY <1>6, <1>7

-----------------------------------------------------------------------------
(* What was read of the present family, and the types of what is stored.   *)
GotTyped == prep.pc \in {"fetch", "digest", "write", "list"} =>
    /\ prep.opts \in Options
    /\ prep.got \in [DOMAIN prep.got -> 0..Fixture]

(* What a run has loaded: the families in front of the present one, from   *)
(* the files it used; and the plan is made of it.                          *)
LoadedSoFar ==
    /\ run.loaded = [k \in 1..Len(run.loaded) |->
           LoadItems(run.fams[k], run.used[run.fams[k]].n, run.limit)]
    /\ \A k \in 1..Len(run.loaded) :
           run.used[run.fams[k]].n \in [Names[run.fams[k]] -> Nat]
Loading ==
    run.pc \in {"check", "load", "plan", "planned"} =>
       /\ run.fams \in Seq(Family) /\ IsInjective(run.fams)
       /\ run.limit \in Nat \cup {NoLimit}
       /\ LoadedSoFar
       /\ Len(run.loaded) = IF run.pc \in {"check", "load"} THEN run.fam - 1
                            ELSE Len(run.fams)
       /\ run.pc = "planned" => run.plan = Interleave(run.loaded)

FilesTyped == \A f \in Family : file[f] = None \/ file[f] \in Content(f)
Lists(m) == /\ m.built \in 0..MaxPrepares
            /\ \A f \in Family : m.items[f] = None \/ m.items[f] \in Content(f)
ListsTyped == Lists(manifest) /\ Lists(prep.mem) /\ Lists(run.seen)
PrepTyped ==
    /\ prep.pc \in {"idle", "fetch", "digest", "write", "list", "save",
                    "ok", "failed", "killed"}
    /\ prep.fam \in 1..(Len(prep.only) + 1)
RunTyped ==
    /\ run.pc \in {"idle", "check", "load", "plan", "planned", "refused"}
    /\ run.disturbed \subseteq Family /\ run.turned \subseteq Family

Counted == prepares \in 0..MaxPrepares /\ runs \in 0..MaxRuns
DataTyped == /\ FilesTyped /\ ListsTyped /\ PrepTyped /\ RunTyped /\ Counted
             /\ GotTyped

LEMMA TypedIsTypeOK == PinInv /\ DataTyped => TypeOK
BY DEF PinInv, RawInv, DataTyped, TypeOK, FilesTyped, ListsTyped, Lists, PrepTyped, RunTyped,
       Counted, Raw

LEMMA NoListing == Lists(NoManifest)
BY DataAssumption DEF Lists, NoManifest

LEMMA InitTyped == ASSUME Init PROVE DataTyped
<1>1. Lists(NoManifest) /\ 0 \in 0..MaxPrepares /\ 0 \in 0..MaxRuns
  BY NoListing, DataAssumption
<1>2. FilesTyped /\ ListsTyped /\ Counted
  BY <1>1 DEF Init, FilesTyped, ListsTyped, Counted, NoPrep, NoRun
<1>3. PrepTyped /\ RunTyped /\ GotTyped
  BY DEF Init, PrepTyped, RunTyped, GotTyped, NoPrep, NoRun
<1> QED BY <1>2, <1>3 DEF DataTyped

(* One file of a family is read, or the family is given up or entered.     *)
LEMMA ReadTyped ==
    ASSUME IInv, PinInv, DataTyped, prep.pc \in {"fetch", "digest"},
           NEW v \in 0..Fixture,
           \/ prep' = After(Got(Todo.name, v)) \/ prep' = Fails(prep)
           \/ prep' = [prep EXCEPT !.pc = "digest"],
           UNCHANGED <<file, manifest, run, prepares, runs>>
    PROVE  DataTyped'
<1>1. /\ PrepRecord /\ prep.only \in Seq(Family) /\ Len(prep.only) \in Nat
      /\ prep.fam \in 1..Len(prep.only)
  BY DEF IInv, Stores, PrepInv, PrepPlace
<1>2. /\ prep.opts \in Options /\ prep.got \in [DOMAIN prep.got -> 0..Fixture]
  BY DEF DataTyped, GotTyped
<1>3. /\ prep'.pc \in {"fetch", "digest", "write", "save"} /\ prep'.only = prep.only
      /\ prep'.fam \in {prep.fam, prep.fam + 1} /\ prep'.opts = prep.opts
      /\ prep'.mem = prep.mem
      /\ prep'.got \in [DOMAIN prep'.got -> 0..Fixture]
  <2>1. CASE prep' = After(Got(Todo.name, v))
    <3>1. Got(Todo.name, v) \in [DOMAIN prep.got \cup {Todo.name} -> 0..Fixture]
      BY <1>2 DEF Got
    <3>2. DOMAIN Got(Todo.name, v) = DOMAIN prep.got \cup {Todo.name}
      BY DEF Got
    <3> QED BY <1>1, <2>1, <3>1, <3>2 DEF After, PrepRecord
  <2>2. CASE prep' = Fails(prep)
    BY <1>1, <2>2 DEF Fails, Following, PrepRecord
  <2>3. CASE prep' = [prep EXCEPT !.pc = "digest"]
    BY <1>1, <1>2, <2>3 DEF PrepRecord
  <2> QED BY <2>1, <2>2, <2>3
<1>4. PrepTyped'
  BY <1>1, <1>3 DEF PrepTyped
<1>5. GotTyped'
  BY <1>2, <1>3 DEF GotTyped
<1>6. FilesTyped' /\ ListsTyped' /\ RunTyped' /\ Counted'
  BY <1>3 DEF DataTyped, FilesTyped, ListsTyped, Lists, RunTyped, Counted
<1> QED BY <1>4, <1>5, <1>6 DEF DataTyped

LEMMA FetchTyped ==
    ASSUME IInv, PinInv, DataTyped,
           UseCached \/ CopyFixture \/ Download \/ KeepDigest \/ NotFetched \/ Refused
    PROVE  DataTyped'
<1>1. /\ prep.pc \in {"fetch", "digest"} /\ UNCHANGED <<file, manifest, run, prepares, runs>>
  BY DEF UseCached, CopyFixture, Download, KeepDigest, NotFetched, Refused
<1>2. Absent \in 0..Fixture /\ Fixture \in 0..Fixture /\ raw[Todo.name].data \in 0..Fixture
  BY <1>1, TodoIs, DataAssumption DEF Absent, Fixture, PinInv, RawInv, Raw
<1>3. CASE UseCached \/ KeepDigest
  <2> DEFINE v == raw[Todo.name].data
  <2>1. prep' \in Taken(v)
    BY <1>3 DEF UseCached, KeepDigest
  <2>2. v \in 0..Fixture
    BY <1>2
  <2> HIDE DEF v
  <2> QED BY <1>1, <2>1, <2>2, TakenIs, ReadTyped
<1>4. CASE CopyFixture
  BY <1>1, <1>2, <1>4, TakenIs, ReadTyped DEF CopyFixture
<1>5. CASE Download
  BY <1>1, <1>2, <1>5, ReadTyped DEF Download
<1>6. CASE NotFetched \/ Refused
  BY <1>1, <1>2, <1>6, ReadTyped DEF NotFetched, Refused
<1> QED BY <1>3, <1>4, <1>5, <1>6

(* The counts of the items that are chosen are numbers.                    *)
LEMMA WriteTyped == ASSUME IInv, PinInv, DataTyped, Write PROVE DataTyped'
<1>1. /\ prep.pc = "write" /\ prep' = [prep EXCEPT !.pc = "list"]
      /\ UNCHANGED <<manifest, prepares, runs>>
  BY DEF Write
<1>2. Fam \in Family
  BY <1>1, FamNotPassed
<1>3. PICK twice \in BOOLEAN :
          file' = [file EXCEPT ![Fam] =
             [from |-> prep.got, n |-> [s \in Names[Fam] |-> Chosen(prep.got, s)],
              twice |-> twice]]
  BY DEF Write
<1>4. prep.got \in [Names[Fam] -> 0..Fixture] /\ prep.opts \in Options
  <2>1. prep.step - 1 = Len(Recipe[Fam])
    BY <1>1, <1>2, OnlyPromptsPinned DEF PinInv, Reading
  <2>2. DOMAIN prep.got = Names[Fam]
    BY <1>1, <1>2, <2>1, DistinctNames DEF PinInv, Reading
  <2> QED BY <1>1, <2>2 DEF DataTyped, GotTyped
<1>5. ASSUME NEW s \in Names[Fam] PROVE Chosen(prep.got, s) \in Nat
  <2>1. CASE prep.got[s] = Absent
    BY <2>1 DEF Chosen
  <2>2. CASE prep.got[s] # Absent
    <3>1. prep.got[s] \in Versions
      BY <1>4, <2>2, DataAssumption DEF Versions, Absent, Fixture
    <3>2. s \in Source /\ prep.opts.profile \in Profile
      BY <1>2, <1>4, DataAssumption DEF Source
    <3>3. Wanted[prep.opts.profile][s] \in Nat /\ Pool[s][prep.got[s]] \in Nat
      BY <3>1, <3>2, DataAssumption
    <3> QED BY <2>2, <3>3 DEF Chosen, Lesser
  <2> QED BY <2>1, <2>2
<1>6. FilesTyped'
  <2>1. [from |-> prep.got, n |-> [s \in Names[Fam] |-> Chosen(prep.got, s)],
         twice |-> twice] \in Content(Fam)
    BY <1>4, <1>5 DEF Content
  <2>2. file'[Fam] \in Content(Fam) /\ \A f \in Family \ {Fam} : file'[f] = file[f]
    BY <1>2, <1>3, <2>1 DEF IInv, Stores
  <2> QED BY <2>2 DEF DataTyped, FilesTyped
<1>7. /\ PrepRecord /\ prep'.pc = "list" /\ prep'.fam = prep.fam /\ prep'.only = prep.only
      /\ prep'.mem = prep.mem
  BY <1>1 DEF IInv, Stores, PrepRecord
<1>8. /\ run'.pc = run.pc /\ run'.seen = run.seen
      /\ run'.disturbed \subseteq run.disturbed \cup {Fam}
      /\ run'.turned \subseteq run.turned \cup {Fam}
  BY DEF Write, IInv, Stores, RunRecord
<1>9. ListsTyped' /\ PrepTyped' /\ RunTyped' /\ Counted' /\ GotTyped'
  BY <1>1, <1>2, <1>7, <1>8
     DEF DataTyped, ListsTyped, Lists, PrepTyped, RunTyped, Counted, GotTyped
<1> QED BY <1>6, <1>9 DEF DataTyped

(* The other steps of a prepare.                                           *)
LEMMA EntryTyped == ASSUME IInv, DataTyped, List PROVE DataTyped'
<1>1. UNCHANGED <<file, manifest, run, prepares, runs>> /\ prep.pc = "list"
  BY DEF List
<1>2. Fam \in Family /\ file[Fam] # None
  BY <1>1, FamNotPassed DEF IInv, PrepInv, PrepPlace
<1>3. PrepRecord /\ Listing(prep.mem) /\ prep.fam \in 1..Len(prep.only) /\ Len(prep.only) \in Nat
  BY <1>1 DEF IInv, Stores, PrepInv, PrepPlace
<1>4. /\ prep'.pc \in {"fetch", "save"} /\ prep'.only = prep.only /\ prep'.fam = prep.fam + 1
      /\ prep'.opts = prep.opts /\ prep'.got = <<>>
      /\ prep'.mem.built = prep.mem.built
      /\ \A f \in Family : prep'.mem.items[f] \in {prep.mem.items[f], file[f]}
  BY <1>2, <1>3 DEF List, Fails, Following, PrepRecord, Listing
<1>5. Lists(prep'.mem)
  BY <1>4 DEF DataTyped, ListsTyped, FilesTyped, Lists
<1>6. prep.opts \in Options
  BY <1>1 DEF DataTyped, GotTyped
<1>7. GotTyped'
  BY <1>4, <1>6 DEF GotTyped
<1> QED BY <1>1, <1>3, <1>4, <1>5, <1>7
    DEF DataTyped, FilesTyped, ListsTyped, PrepTyped, RunTyped, Counted

LEMMA StartPrepareTyped == ASSUME IInv, DataTyped, StartPrepare PROVE DataTyped'
<1>1. PICK only \in Requests, opts \in Options :
          prep' = [NoPrep EXCEPT !.pc = "fetch", !.only = only, !.opts = opts,
                    !.mem = [manifest EXCEPT !.built = prepares + 1]]
  BY DEF StartPrepare, OldManifest
<1>2. /\ UNCHANGED <<file, manifest, run, runs>>
      /\ prepares' = prepares + 1 /\ prepares' \in 0..MaxPrepares
  BY DataAssumption DEF StartPrepare, DataTyped, Counted
<1>3. /\ prep'.pc = "fetch" /\ prep'.fam = 1 /\ prep'.only = only /\ prep'.opts = opts
      /\ prep'.got = <<>> /\ prep'.mem.items = manifest.items
      /\ prep'.mem.built = prepares + 1
  BY <1>1 DEF NoPrep, IInv, Stores, Listing
<1>4. Len(only) \in Nat
  BY DataAssumption
<1>5. Lists(prep'.mem)
  BY <1>2, <1>3 DEF DataTyped, ListsTyped, Lists
<1>6. PrepTyped' /\ GotTyped'
  BY <1>3, <1>4 DEF PrepTyped, GotTyped
<1> QED BY <1>2, <1>5, <1>6 DEF DataTyped, FilesTyped, ListsTyped, RunTyped, Counted

LEMMA EndTyped == ASSUME IInv, DataTyped, Save \/ KillPrepare PROVE DataTyped'
<1>1. /\ prep'.pc \in {"ok", "failed", "killed"} /\ prep'.fam = 1 /\ prep'.mem = NoManifest
      /\ Len(prep'.only) \in Nat
      /\ manifest' \in {manifest, prep.mem} /\ UNCHANGED <<file, run, prepares, runs>>
  <2>1. prep.only \in Seq(Family) /\ Len(prep.only) \in Nat /\ Len(<<>>) = 0
    BY DEF IInv, PrepInv, PrepPlace
  <2>2. CASE Save
    BY <2>1, <2>2 DEF Save, NoPrep
  <2>3. CASE KillPrepare
    BY <2>1, <2>3 DEF KillPrepare, NoPrep
  <2> QED BY <2>2, <2>3
<1>2. ListsTyped'
  BY <1>1, NoListing DEF DataTyped, ListsTyped
<1>3. PrepTyped' /\ GotTyped'
  BY <1>1 DEF PrepTyped, GotTyped
<1> QED BY <1>1, <1>2, <1>3 DEF DataTyped, FilesTyped, RunTyped, Counted

LEMMA RunStepTyped == ASSUME IInv, DataTyped, RunStep PROVE DataTyped'
<1>1. UNCHANGED <<prep, file, manifest, prepares>>
  BY DEF RunStep, StartRun, Check, Load, Plan, ReadHeader
<1>2. /\ run'.pc \in {"check", "load", "plan", "planned", "refused"}
      /\ run'.disturbed \subseteq run.disturbed /\ run'.turned \subseteq run.turned
      /\ run'.seen \in {run.seen, manifest}
  <2>1. CASE StartRun
    BY <2>1 DEF StartRun, NoRun
  <2>2. CASE Check
    BY <2>2 DEF Check, IInv, Stores, RunRecord
  <2>3. CASE Load
    BY <2>3 DEF Load, IInv, Stores, RunRecord
  <2>4. CASE Plan
    BY <2>4 DEF Plan, IInv, Stores, RunRecord
  <2>5. CASE ReadHeader
    BY <2>5 DEF ReadHeader, IInv, Stores, RunRecord
  <2> QED BY <2>1, <2>2, <2>3, <2>4, <2>5 DEF RunStep
<1>3. runs' \in 0..MaxRuns
  <2>1. runs \in 0..MaxRuns /\ MaxRuns \in Nat
    BY DataAssumption DEF DataTyped, Counted
  <2>2. CASE StartRun
    <3>1. runs' = runs + 1 /\ runs < MaxRuns
      BY <2>2 DEF StartRun
    <3> QED BY <2>1, <3>1
  <2>3. CASE ~StartRun
    BY <2>1, <2>3 DEF RunStep, Check, Load, Plan, ReadHeader
  <2> QED BY <2>2, <2>3
<1>4. ListsTyped' /\ RunTyped' /\ Counted'
  BY <1>1, <1>2, <1>3 DEF DataTyped, ListsTyped, Lists, RunTyped, Counted
<1> QED BY <1>1, <1>4 DEF DataTyped, FilesTyped, PrepTyped, GotTyped

LEMMA StepTyped == IInv /\ PinInv /\ DataTyped /\ [Next]_vars => DataTyped'
<1> SUFFICES ASSUME IInv, PinInv, DataTyped, [Next]_vars PROVE DataTyped'
  OBVIOUS
<1>1. CASE Publish \/ UNCHANGED vars
  BY <1>1 DEF Publish, vars, DataTyped, FilesTyped, ListsTyped, Lists, PrepTyped, RunTyped,
              Counted, GotTyped
<1> QED BY <1>1, FetchTyped, WriteTyped, EntryTyped, StartPrepareTyped, EndTyped, RunStepTyped
    DEF Next, PrepareStep

(* Type correctness: above all, of every item file the count of every      *)
(* source is a number (prepare_data.py).                                   *)
THEOREM DataTypeCorrect == Spec => []TypeOK
<1>1. Spec => []DataTyped
  BY DataInvariant, PinInit, StepPin, InitTyped, StepTyped, PTL DEF Spec
<1>2. Spec => []PinInv
  BY DataInvariant, PinInit, StepPin, PTL DEF Spec
<1> QED BY <1>1, <1>2, TypedIsTypeOK, PTL

-----------------------------------------------------------------------------
LEMMA AppendIs ==
    ASSUME NEW R, NEW s \in Seq(R), NEW x, NEW m \in Nat, Len(s) = m - 1
    PROVE  /\ Len(Append(s, x)) = m
           /\ Append(s, x) = [k \in 1..m |-> Append(s, x)[k]]
           /\ Append(s, x)[m] = x
           /\ \A k \in 1..(m - 1) : Append(s, x)[k] = s[k]
<1> DEFINE u == Append(s, x)  U == R \cup {x}
<1>1. s \in Seq(U) /\ x \in U /\ Len(s) + 1 = m
  OBVIOUS
<1>2. u \in Seq(U) /\ Len(u) = m /\ u[m] = x /\ \A k \in 1..(m - 1) : u[k] = s[k]
  <2> HIDE DEF U
  <2> QED BY <1>1, AppendProperties
<1> HIDE DEF u, U
<1>3. u = [k \in 1..m |-> u[k]]
  BY <1>2
<1> QED BY <1>2, <1>3 DEF u

LEMMA StartRunLoading == ASSUME StartRun PROVE Loading'
<1>1. PICK fams \in Requests, limit \in Limits :
        run' = [NoRun EXCEPT !.pc = "check", !.fams = fams, !.limit = limit,
                             !.seen = manifest]
  BY DEF StartRun
<1>2. /\ fams \in Seq(Family) /\ fams # <<>> /\ IsInjective(fams)
      /\ limit \in Nat \cup {NoLimit}
  BY DataAssumption
<1>3. /\ run'.pc = "check" /\ run'.fams = fams /\ run'.limit = limit /\ run'.fam = 1
      /\ run'.loaded = <<>>
  BY <1>1 DEF NoRun
<1>4. LoadedSoFar' /\ Len(run'.loaded) = run'.fam - 1
  <2>1. 1..Len(run'.loaded) = {} /\ run'.loaded = <<>>
    BY <1>3
  <2> QED BY <1>3, <2>1 DEF LoadedSoFar
<1> QED BY <1>2, <1>3, <1>4 DEF Loading

(* A family more is loaded, or the run is refused.                         *)
LEMMA LoadLoading == ASSUME IInv, DataTyped, Loading, Load PROVE Loading'
<1>1. CASE run' = [run EXCEPT !.pc = "refused"]
  BY <1>1 DEF Loading, IInv, Stores, RunRecord
<1>2. ASSUME file[Asked] # None,
             run' = [run EXCEPT
                !.used[Asked] = file[Asked], !.fam = @ + 1,
                !.loaded = Append(@, LoadItems(Asked, file[Asked].n, run.limit)),
                !.pc = IF run.fam = Len(run.fams) THEN "plan" ELSE "check"]
      PROVE  Loading'
  <2> DEFINE m == run.fam  fams == run.fams  L == Len(run.fams)
             new == LoadItems(Asked, file[Asked].n, run.limit)
             was(k) == LoadItems(fams[k], run.used[fams[k]].n, run.limit)
  <2>1. /\ run.pc = "load" /\ fams \in Seq(Family) /\ IsInjective(fams)
        /\ m \in 1..L /\ L \in Nat /\ Asked = fams[m] /\ Asked \in Family
        /\ run.limit \in Nat \cup {NoLimit}
        /\ LoadedSoFar /\ Len(run.loaded) = m - 1
    BY DEF Load, Loading, IInv, RunInv, RunPlace, Asked
  <2>2. /\ run'.pc = IF m = L THEN "plan" ELSE "check"
        /\ run'.fams = fams /\ run'.fam = m + 1 /\ run'.limit = run.limit
        /\ run'.loaded = Append(run.loaded, new)
        /\ run'.used = [f \in Family |-> IF f = Asked THEN file[f] ELSE run.used[f]]
    BY <1>2, <2>1 DEF IInv, Stores, RunRecord
  <2>3. /\ run.loaded = [k \in 1..(m - 1) |-> was(k)]
        /\ \A k \in 1..(m - 1) : run.used[fams[k]].n \in [Names[fams[k]] -> Nat]
    <3> HIDE DEF m
    <3> QED BY <2>1 DEF LoadedSoFar
  <2>4. file[Asked].n \in [Names[Asked] -> Nat]
    BY <1>2, <2>1 DEF DataTyped, FilesTyped, Content
  <2>5. \A k \in 1..(m - 1) : fams[k] \in Family /\ fams[k] # Asked
    BY <2>1 DEF IsInjective
  <2>6. /\ Len(run'.loaded) = m /\ run'.loaded = [k \in 1..m |-> run'.loaded[k]]
        /\ run'.loaded[m] = new
        /\ \A k \in 1..(m - 1) : run'.loaded[k] = was(k)
    <3> DEFINE R == {was(k) : k \in 1..(m - 1)}
    <3>1. m \in Nat /\ m - 1 \in Nat /\ run.loaded \in [1..(m - 1) -> R]
      BY <2>1, <2>3
    <3>2. \A k \in 1..(m - 1) : run.loaded[k] = was(k)
      BY <2>3
    <3> HIDE DEF R, new, was, m
    <3>3. run.loaded \in Seq(R) /\ Len(run.loaded) = m - 1
      BY <3>1, FunctionIsSeq
    <3>4. /\ Len(Append(run.loaded, new)) = m
          /\ Append(run.loaded, new) = [k \in 1..m |-> Append(run.loaded, new)[k]]
          /\ Append(run.loaded, new)[m] = new
          /\ \A k \in 1..(m - 1) : Append(run.loaded, new)[k] = run.loaded[k]
      BY <3>1, <3>3, AppendIs
    <3> QED BY <2>2, <3>2, <3>4
  <2>7. ASSUME NEW k \in 1..m
        PROVE  /\ run'.used[fams[k]].n \in [Names[fams[k]] -> Nat]
               /\ run'.loaded[k] = LoadItems(fams[k], run'.used[fams[k]].n, run.limit)
    <3>1. CASE k = m
      <4>1. run'.used[fams[k]] = file[Asked]
        BY <2>1, <2>2, <3>1
      <4> QED BY <2>1, <2>4, <2>6, <3>1, <4>1
    <3>2. CASE k # m
      <4>1. k \in 1..(m - 1)
        BY <2>1, <3>2
      <4>2. run'.used[fams[k]] = run.used[fams[k]]
        BY <2>2, <2>5, <4>1
      <4> QED BY <2>3, <2>6, <4>1, <4>2
    <3> QED BY <3>1, <3>2
  <2> HIDE DEF new, was
  <2>8. LoadedSoFar'
    <3>1. \A k \in 1..m : run'.loaded[k] =
              LoadItems(run'.fams[k], run'.used[run'.fams[k]].n, run'.limit)
      BY <2>2, <2>7
    <3>2. \A k \in 1..m : run'.used[run'.fams[k]].n \in [Names[run'.fams[k]] -> Nat]
      BY <2>2, <2>7
    <3> HIDE DEF m
    <3>3. run'.loaded = [k \in 1..m |->
              LoadItems(run'.fams[k], run'.used[run'.fams[k]].n, run'.limit)]
      BY <2>6, <3>1
    <3> QED BY <2>6, <3>2, <3>3 DEF LoadedSoFar
  <2>9. run'.pc = "check" => run'.fam - 1 = m
    BY <2>1, <2>2
  <2>10. run'.pc = "plan" => m = L
    BY <2>2
  <2> HIDE DEF m
  <2> QED BY <2>1, <2>2, <2>6, <2>8, <2>9, <2>10 DEF Loading
<1> QED BY <1>1, <1>2 DEF Load

LEMMA StepLoading == IInv /\ DataTyped /\ Loading /\ [Next]_vars => Loading'
<1> SUFFICES ASSUME IInv, DataTyped, Loading, [Next]_vars PROVE Loading'
  OBVIOUS
<1>1. CASE Write
  <2>1. /\ run'.pc = run.pc /\ run'.fams = run.fams /\ run'.limit = run.limit
        /\ run'.fam = run.fam /\ run'.used = run.used /\ run'.loaded = run.loaded
        /\ run'.plan = run.plan
    BY <1>1 DEF Write, IInv, Stores, RunRecord
  <2> QED BY <2>1 DEF Loading, LoadedSoFar
<1>2. CASE Check
  <2>1. /\ run.pc = "check" /\ run'.pc \in {"load", "refused"} /\ run'.fams = run.fams
        /\ run'.limit = run.limit
        /\ run'.fam = run.fam /\ run'.used = run.used /\ run'.loaded = run.loaded
    BY <1>2 DEF Check, IInv, Stores, RunRecord
  <2> QED BY <2>1 DEF Loading, LoadedSoFar
<1>3. CASE Plan
  <2>1. /\ run.pc = "plan" /\ run'.pc \in {"planned", "refused"} /\ run'.fams = run.fams
        /\ run'.limit = run.limit
        /\ run'.used = run.used /\ run'.loaded = run.loaded
        /\ run'.plan = Interleave(run.loaded)
    BY <1>3 DEF Plan, IInv, Stores, RunRecord
  <2> QED BY <2>1 DEF Loading, LoadedSoFar
<1>4. CASE UNCHANGED run
  BY <1>4 DEF Loading, LoadedSoFar
<1>6. CASE ReadHeader
  <2>1. /\ run'.pc = run.pc /\ run'.fams = run.fams /\ run'.limit = run.limit
        /\ run'.fam = run.fam /\ run'.used = run.used /\ run'.loaded = run.loaded
        /\ run'.plan = run.plan
    BY <1>6 DEF ReadHeader, IInv, Stores, RunRecord
  <2> QED BY <2>1 DEF Loading, LoadedSoFar
<1>5. Write \/ StartRun \/ Check \/ Load \/ Plan \/ ReadHeader \/ UNCHANGED run
  BY DEF Next, Publish, PrepareStep, RunStep, StartPrepare, UseCached, CopyFixture,
         Download, KeepDigest, NotFetched, Refused, List, Save, KillPrepare, vars
<1> QED BY <1>1, <1>2, <1>3, <1>4, <1>5, <1>6, StartRunLoading, LoadLoading

LEMMA LoadingIsFair == Loading => FairMerge
<1> SUFFICES ASSUME Loading, run.pc = "planned" PROVE FairMerge
  BY DEF FairMerge, PlanMerges, PlanIsFair
<1> DEFINE fams == run.fams  loaded == run.loaded  limit == run.limit
           n == [k \in 1..Len(run.fams) |-> run.used[run.fams[k]].n]
<1>1. /\ fams \in Seq(Family) /\ IsInjective(fams) /\ Len(fams) \in Nat
      /\ limit \in Nat \cup {NoLimit} /\ Len(loaded) = Len(fams)
      /\ run.plan = Interleave(loaded)
      /\ \A k \in 1..Len(fams) : /\ n[k] \in [Names[fams[k]] -> Nat]
                                 /\ loaded[k] = LoadItems(fams[k], n[k], limit)
  BY DEF Loading, LoadedSoFar
<1>2. \A k \in 1..Len(fams) : n[k] = run.used[fams[k]].n
  OBVIOUS
<1> HIDE DEF n, fams, loaded, limit
<1>3. \A k \in 1..Len(fams) : LoadedWell(loaded[k], fams[k], n[k], limit)
  <2> TAKE k \in 1..Len(fams)
  <2>1. fams[k] \in Family
    BY <1>1
  <2> QED BY <1>1, <2>1, FamilyLoaded
<1>4. Merged(run.plan, loaded, 1, fams) /\ Fair(run.plan, 1)
  BY <1>1, <1>3, PlanOfLoaded
<1>5. \A k \in 1..Len(fams) : Fair(loaded[k], 2)
  BY <1>3 DEF LoadedWell
<1>6. PlanMerges
  <2> SUFFICES ASSUME NEW k \in 1..Len(fams)
               PROVE  LET f == fams[k]
                          items == loaded[k]
                      IN  /\ \A i \in 1..Len(run.plan) : run.plan[i][1] = f =>
                                /\ Count(run.plan, 1, f, i) <= Len(items)
                                /\ run.plan[i] = items[Count(run.plan, 1, f, i)]
                          /\ Count(run.plan, 1, f, Len(run.plan)) = Len(items)
                          /\ \A i \in 1..Len(items) :
                                items[i][3] = Count(items, 2, items[i][2], i)
                          /\ limit = NoLimit => \A j \in 1..SubFamilies[f] :
                                Count(items, 2, j, Len(items)) = SizeOf(f, j, n[k])
    BY <1>2 DEF PlanMerges, fams, loaded, limit
  <2>1. LoadedWell(loaded[k], fams[k], n[k], limit)
    BY <1>3
  <2>2. /\ \A i \in 1..Len(run.plan) : run.plan[i][1] = fams[k] =>
              /\ Count(run.plan, 1, fams[k], i) \in 1..Len(loaded[k])
              /\ run.plan[i] = loaded[k][Count(run.plan, 1, fams[k], i)]
        /\ Count(run.plan, 1, fams[k], Len(run.plan)) = Len(loaded[k])
    BY <1>1, <1>4 DEF Merged
  <2> QED BY <2>1, <2>2 DEF LoadedWell
<1>7. PlanIsFair
  BY <1>4, <1>5 DEF PlanIsFair, fams, loaded
<1> QED BY <1>6, <1>7 DEF FairMerge

(* The plan of every run is a fair merge, whatever families, files and     *)
(* limit: nothing up to the limit is left out, every family and every      *)
(* sub-family of it keeps its order, and wherever a budget or a kill cuts  *)
(* the plan, none of them is far ahead (_base.py, interleave).             *)
THEOREM PlansAreFairMerges == Spec => []FairMerge
<1>1. Spec => []DataTyped
  BY DataInvariant, PinInit, StepPin, InitTyped, StepTyped, PTL DEF Spec
<1>2. Init => Loading
  BY DEF Init, NoRun, Loading
<1>3. Spec => []Loading
  BY <1>1, <1>2, DataInvariant, StepLoading, PTL DEF Spec
<1> QED BY <1>3, LoadingIsFair, PTL

=============================================================================
