------------------------------- MODULE ItemData -------------------------------
(***************************************************************************)
(* The item files of the evaluation suite: prepare_data.py builds them     *)
(* from downloaded files and lists them in a manifest, run_eval.py checks  *)
(* them against the manifest and plans its items from them.                *)
(*                                                                         *)
(* A downloaded file is the version of its source; an item file is the     *)
(* versions it was chosen from and how many items of each; a digest of     *)
(* either is the thing itself.  One prepare runs at a time and may be      *)
(* killed anywhere; a run may plan while it works.                         *)
(***************************************************************************)
EXTENDS Integers, Sequences, FiniteSets, Functions, ItemRecipes, ItemPlan

CONSTANTS
    Family,      \* the families there are
    Profile,     \* the profiles of prepare_data.py
    Wanted,      \* items of a source a profile asks for
    Pool,        \* eligible items of a source in each of its versions
    Requests,    \* bound: the --only lists, and --families of a run, considered
    Options,     \* bound: the combinations of a prepare's options considered
    Limits,      \* bound: the --limit values considered
    MaxVersion,  \* bound: versions the sources go through; 1 is the pinned one
    MaxPrepares, \* bound: prepares ever started
    MaxRuns      \* bound: runs ever started

Source == UNION {Names[f] : f \in Family}

(* A version of its own: the file given by --offline-fixtures.             *)
Fixture == MaxVersion + 1
Versions == 1..Fixture
Pinned  == 1
Absent  == 0      \* no file, or none used

ASSUME DataAssumption ==
    /\ Family \subseteq DOMAIN Recipe
    /\ Wanted \in [Profile -> [Source -> Nat]]
    /\ Pool \in [Source -> [Versions -> Nat]]
    /\ \A r \in Requests : r \in Seq(Family) /\ r # <<>> /\ IsInjective(r)
    /\ Options \subseteq [profile : Profile, refresh : BOOLEAN, short : BOOLEAN,
                           fixtures : BOOLEAN]
    /\ Limits \subseteq Nat \cup {NoLimit}
    /\ MaxVersion \in Nat \ {0} /\ MaxPrepares \in Nat /\ MaxRuns \in Nat

Lesser(a, b) == IF a < b THEN a ELSE b

(* What an item file holds: of every source of its family a version, so    *)
(* many of its items, and whether one of them comes twice.                 *)
Content(f) == [from : [Names[f] -> 0..Fixture], n : [Names[f] -> Nat],
               twice : BOOLEAN]
None == [from |-> <<>>, n |-> <<>>, twice |-> FALSE]   \* no file, or no entry

(* Pages of one crawl that are of two versions: a row may come twice.      *)
Mixed(from) == \E pages \in Pages :
    /\ pages \subseteq DOMAIN from
    /\ \E s, t \in pages : from[s] # from[t]

VARIABLES
    version,  \* what the sources serve at present
    raw,      \* data/raw: a file and the digest kept beside it
    file,     \* data/items/<family>.jsonl
    manifest, \* data/manifest.json
    prep,     \* the prepare_data.py that runs, or how the last one ended
    run,      \* the run_eval.py that plans its items, or has
    prepares, \* prepares started
    runs      \* runs started

vars == <<version, raw, file, manifest, prep, run, prepares, runs>>

(* built tells manifests apart (built_at); 0 is no manifest.               *)
Manifest == [built : 0..MaxPrepares,
             items : [Family -> UNION {Content(f) : f \in Family} \cup {None}]]
NoManifest == [built |-> 0, items |-> [f \in Family |-> None]]

NoPrep == [pc |-> "idle", only |-> <<>>, opts |-> <<>>, mem |-> NoManifest,
           fam |-> 1, step |-> 1, got |-> <<>>, failed |-> FALSE]

NoRun == [pc |-> "idle", limit |-> NoLimit, seen |-> NoManifest, fams |-> <<>>,
          fam |-> 1, used |-> [f \in Family |-> None], disturbed |-> {},
          loaded |-> <<>>, plan |-> <<>>,
          header |-> [f \in Family |-> None], turned |-> {}]

TypeOK ==
    /\ version \in 1..MaxVersion
    /\ raw \in [Source -> [data : 0..Fixture, sha : 0..Fixture]]
    /\ \A f \in Family : file[f] = None \/ file[f] \in Content(f)
    /\ \A m \in {manifest, prep.mem, run.seen} : m.built \in 0..MaxPrepares
        /\ \A f \in Family : m.items[f] = None \/ m.items[f] \in Content(f)
    /\ prep.pc \in {"idle", "fetch", "digest", "write", "list", "save",
                    "ok", "failed", "killed"}
    /\ prep.fam \in 1..(Len(prep.only) + 1)
    /\ run.pc \in {"idle", "check", "load", "plan", "planned", "refused"}
    /\ run.disturbed \subseteq Family /\ run.turned \subseteq Family
    /\ prepares \in 0..MaxPrepares /\ runs \in 0..MaxRuns

Init ==
    /\ version = 1
    /\ raw = [s \in Source |-> [data |-> Absent, sha |-> Absent]]
    /\ file = [f \in Family |-> None]
    /\ manifest = NoManifest /\ prep = NoPrep /\ run = NoRun
    /\ prepares = 0 /\ runs = 0

(* A source publishes something else.                                      *)
Publish ==
    /\ version < MaxVersion
    /\ version' = version + 1
    /\ UNCHANGED <<raw, file, manifest, prep, run, prepares, runs>>

---------------------------------------------------------------------------
(* prepare_data.py                                                         *)

Preparing == prep.pc \in {"fetch", "digest", "write", "list", "save"}
Fam  == prep.only[prep.fam]
Todo == Recipe[Fam][prep.step]

(* Where the next family, or the end of the loop over them, starts.        *)
Following(p) == [p EXCEPT !.fam = @ + 1, !.step = 1, !.got = <<>>,
                      !.pc = IF p.fam = Len(p.only) THEN "save" ELSE "fetch"]

(* Mutant of Fails: the failure is logged only.                            *)
FailsSilently(p) == Following(p)

(* A family that fails is noted, its old entry stays, the next one starts. *)
Fails(p) == [Following(p) EXCEPT !.failed = TRUE]

(* The manifest there is, or an empty one, is what entries are added to.   *)
OldManifest == manifest

StartPrepare ==
    /\ ~Preparing /\ prepares < MaxPrepares
    /\ prepares' = prepares + 1
    /\ \E only \in Requests, opts \in Options :
        prep' = [NoPrep EXCEPT !.pc = "fetch", !.only = only, !.opts = opts,
                    !.mem = [OldManifest EXCEPT !.built = prepares + 1]]
    /\ UNCHANGED <<version, raw, file, manifest, run, runs>>

(* The digest of a file that is there: the one beside it, if there is one. *)
Digest(s) == IF raw[s].sha # Absent THEN raw[s].sha ELSE raw[s].data

Takes(fixed, v) == fixed => v = Pinned

(* A file that is there is used again, unless it is to be fetched anew or  *)
(* does not have the digest it should have.                                *)
Cached(s, kind) ==
    /\ raw[s].data # Absent /\ ~prep.opts.refresh
    /\ Takes(kind = "pinned", Digest(s))

Given == prep.opts.fixtures /\ Todo.kind = "pinned"

Got(s, v) == [x \in DOMAIN prep.got \cup {s} |-> IF x = s THEN v ELSE prep.got[x]]

After(got) ==
    [prep EXCEPT !.got = got, !.step = @ + 1,
                 !.pc = IF prep.step = Len(Recipe[Fam]) THEN "write" ELSE "fetch"]

(* Fewer eligible items than the profile asks for.                         *)
TooFew(s, v) == Pool[s][v] < Wanted[prep.opts.profile][s]

(* Where the items are chosen, a pool that is too small ends the prepare   *)
(* unless --allow-short was given.                                         *)
Short(got) == ~prep.opts.short /\ \E s \in Todo.choose : TooFew(s, got[s])

(* So do rows that come twice, in the families that look for them.         *)
Clashes(got) == Fam \in ChecksIds /\ Mixed([s \in Todo.choose |-> got[s]])

(* The file that was fetched is read: how the prepare may go on.           *)
Taken(v) == LET got == Got(Todo.name, v)
            IN  IF Short(got) THEN {Fails(prep)}
                ELSE {After(got)} \cup (IF Clashes(got) THEN {Fails(prep)} ELSE {})

UseCached ==
    /\ prep.pc = "fetch" /\ ~Given /\ Cached(Todo.name, Todo.kind)
    /\ prep' \in Taken(raw[Todo.name].data)
    /\ UNCHANGED <<version, raw, file, manifest, run, prepares, runs>>

(* A copy of the fixture takes the file's place, its digest stays.         *)
CopyFixture ==
    /\ prep.pc = "fetch" /\ Given
    /\ raw' = [raw EXCEPT ![Todo.name].data = Fixture]
    /\ prep' \in Taken(Fixture)
    /\ UNCHANGED <<version, file, manifest, run, prepares, runs>>

(* Mutant of Wants: the digest is compared in the cached file only.        *)
WantsAny(kind, v) == TRUE

(* What a download must be to take the file's place.                       *)
Wants(kind, v) == Takes(kind = "pinned", v)

(* One of the attempts delivers; the digest is written in a second step.   *)
Download ==
    /\ prep.pc = "fetch" /\ ~Given /\ ~Cached(Todo.name, Todo.kind)
    /\ Wants(Todo.kind, version)
    /\ raw' = [raw EXCEPT ![Todo.name].data = version]
    /\ prep' = [prep EXCEPT !.pc = "digest"]
    /\ UNCHANGED <<version, file, manifest, run, prepares, runs>>

KeepDigest ==
    /\ prep.pc = "digest"
    /\ raw' = [raw EXCEPT ![Todo.name].sha = raw[Todo.name].data]
    /\ prep' \in Taken(raw[Todo.name].data)
    /\ UNCHANGED <<version, file, manifest, run, prepares, runs>>

(* No attempt delivers: the end of this family's prepare, or the file is   *)
(* left out.  The hub may say no to a gated file even if it is there.      *)
NotFetched ==
    /\ prep.pc = "fetch" /\ ~Given /\ ~Cached(Todo.name, Todo.kind)
    /\ prep' = IF Todo.kind = "optional" /\ prep.opts.short
               THEN After(Got(Todo.name, Absent)) ELSE Fails(prep)
    /\ UNCHANGED <<version, raw, file, manifest, run, prepares, runs>>

Refused ==
    /\ prep.pc = "fetch" /\ Todo.kind = "gated"
    /\ prep' = After(Got(Todo.name, Absent))
    /\ UNCHANGED <<version, raw, file, manifest, run, prepares, runs>>

Chosen(got, s) ==
    IF got[s] = Absent THEN 0
    ELSE Lesser(Wanted[prep.opts.profile][s], Pool[s][got[s]])

(* The family that a run checks and loads.                                 *)
Asked == run.fams[run.fam]

(* The family's header has still to be read, from its file as it is then.  *)
HeaderUnread(f) == f \in Headed /\ run.used[f] # None /\ run.header[f] = None

(* The item file is replaced as a whole; a run does not notice if it is    *)
(* between two looks at the file.                                          *)
Write ==
    /\ prep.pc = "write"
    /\ \E twice \in {FALSE, Mixed(prep.got) /\ Fam \notin ChecksIds} :
          file' = [file EXCEPT ![Fam] =
             [from |-> prep.got, n |-> [s \in Names[Fam] |-> Chosen(prep.got, s)],
              twice |-> twice]]
    /\ prep' = [prep EXCEPT !.pc = "list"]
    /\ run' = [run EXCEPT
          !.disturbed = IF run.pc = "load" /\ Asked = Fam THEN @ \cup {Fam} ELSE @,
          !.turned    = IF HeaderUnread(Fam) THEN @ \cup {Fam} ELSE @]
    /\ UNCHANGED <<version, raw, manifest, prepares, runs>>

(* Mutant of List: ids are not compared.                                   *)
ListAnyway ==
    /\ prep.pc = "list"
    /\ prep' = Following([prep EXCEPT !.mem.items[Fam] = file[Fam]])
    /\ UNCHANGED <<version, raw, file, manifest, run, prepares, runs>>

(* The entry is of the file as it is, unless an id comes twice in it.      *)
List ==
    /\ prep.pc = "list"
    /\ prep' = IF file[Fam].twice THEN Fails(prep)
               ELSE Following([prep EXCEPT !.mem.items[Fam] = file[Fam]])
    /\ UNCHANGED <<version, raw, file, manifest, run, prepares, runs>>

(* The manifest is replaced once, failures or not.                         *)
Save ==
    /\ prep.pc = "save"
    /\ manifest' = prep.mem
    /\ prep' = [NoPrep EXCEPT !.pc = IF prep.failed THEN "failed" ELSE "ok",
                              !.only = prep.only]
    /\ UNCHANGED <<version, raw, file, run, prepares, runs>>

KillPrepare ==
    /\ Preparing
    /\ prep' = [NoPrep EXCEPT !.pc = "killed"]
    /\ UNCHANGED <<version, raw, file, manifest, run, prepares, runs>>

---------------------------------------------------------------------------
(* run_eval.py, up to its plan                                             *)

StartRun ==
    /\ run.pc \in {"idle", "planned", "refused"} /\ runs < MaxRuns
    /\ runs' = runs + 1
    /\ \E fams \in Requests, limit \in Limits :
        run' = [NoRun EXCEPT !.pc = "check", !.fams = fams, !.limit = limit,
                             !.seen = manifest]
    /\ UNCHANGED <<version, raw, file, manifest, prep, prepares>>

(* Mutant of Verified: only the first family is compared.                  *)
VerifiedIfFirst(f) == run.seen.items[f] # None /\ run.fam = 1

(* Whether check_manifest has something to compare the file with.          *)
Verified(f) == run.seen.items[f] # None

Check ==
    /\ run.pc = "check"
    /\ run' = IF ~Verified(Asked) THEN [run EXCEPT !.pc = "load"]
              ELSE IF file[Asked] # run.seen.items[Asked]
                   THEN [run EXCEPT !.pc = "refused"]
              ELSE [run EXCEPT !.pc = "load"]
    /\ UNCHANGED <<version, raw, file, manifest, prep, prepares, runs>>

(* The items of a file that holds n[s] of each source, and how many of     *)
(* them are of the j-th sub-family.                                        *)
Held(f, n) == UNION {{s} \X (1..n[s]) : s \in Names[f]}
SizeOf(f, j, n) == Cardinality({x \in Held(f, n) : SubOf(x[1], x[2]) = j})

(* The items of a sub-family in their order, and of a family, as the limit *)
(* leaves them.                                                            *)
ItemsOf(f, j, n) == [i \in 1..SizeOf(f, j, n) |-> <<f, j, i>>]
LoadItems(f, n, limit) ==
    Cut(Interleave([j \in 1..SubFamilies[f] |-> ItemsOf(f, j, n)]), limit)

(* An item that comes twice is met, or lies behind the limit.              *)
Load ==
    /\ run.pc = "load"
    /\ \/ /\ file[Asked] = None \/ file[Asked].twice
          /\ run' = [run EXCEPT !.pc = "refused"]
       \/ /\ file[Asked] # None
          /\ file[Asked].twice => run.limit # NoLimit
          /\ run' = [run EXCEPT
                !.used[Asked] = file[Asked], !.fam = @ + 1,
                !.loaded = Append(@, LoadItems(Asked, file[Asked].n, run.limit)),
                !.pc = IF run.fam = Len(run.fams) THEN "plan" ELSE "check"]
    /\ UNCHANGED <<version, raw, file, manifest, prep, prepares, runs>>

Plan ==
    /\ run.pc = "plan"
    /\ LET plan == Interleave(run.loaded)
       IN  run' = [run EXCEPT !.plan = plan,
                              !.pc = IF plan = <<>> THEN "refused" ELSE "planned"]
    /\ UNCHANGED <<version, raw, file, manifest, prep, prepares, runs>>

(* The header of the item file, which the requests are made with, is read  *)
(* when it is first needed, once; nothing compares the file again.         *)
ReadHeader ==
    /\ run.pc = "planned"
    /\ \E f \in Family :
          /\ HeaderUnread(f)
          /\ run' = [run EXCEPT !.header[f] = file[f]]
    /\ UNCHANGED <<version, raw, file, manifest, prep, prepares, runs>>

PrepareStep == StartPrepare \/ UseCached \/ CopyFixture \/ Download \/ KeepDigest
               \/ NotFetched \/ Refused \/ Write \/ List \/ Save \/ KillPrepare
RunStep     == StartRun \/ Check \/ Load \/ Plan \/ ReadHeader

Next == Publish \/ PrepareStep \/ RunStep
Spec == Init /\ [][Next]_vars
---------------------------------------------------------------------------
(* Correctness                                                             *)

(* A run that was not refused used of every family that its manifest lists *)
(* the very file the manifest lists, whatever prepares were killed, failed *)
(* or went on meanwhile; unless the file was replaced between the moment   *)
(* its digest was taken and the moment its items were read.  The header it *)
(* makes its requests with is of the file its items are of, unless that    *)
(* was replaced between the items and the header.                          *)
RunUsesListed == \A f \in Family :
    /\ run.used[f] # None /\ run.seen.items[f] # None =>
          run.used[f] = run.seen.items[f] \/ f \in run.disturbed
    /\ run.header[f] # None => run.header[f] = run.used[f] \/ f \in run.turned

(* After a prepare that exits with 0, and until the next one starts, every *)
(* family it was asked for is listed as its item file is.                  *)
FinishedIsListed == prep.pc = "ok" =>
    \A i \in 1..Len(prep.only) :
        /\ file[prep.only[i]] # None
        /\ manifest.items[prep.only[i]] = file[prep.only[i]]

(* Items of a source whose digest is pinned are of that version, or of a   *)
(* fixture that was given, even if fetches were cut off between a file     *)
(* and the digest beside it.                                               *)
PinnedItems == \A f \in Family : file[f] # None =>
    \A s \in Names[f] : KindOf(f, s) = "pinned" =>
        file[f].from[s] \in {Pinned, Fixture}

(* No file is listed that holds an item twice, although a crawl that was   *)
(* cut off leaves its pages to the next one and the pages of two versions  *)
(* are put together; nor does a run use one, if it takes the whole family  *)
(* or a family that is listed and was not replaced meanwhile.              *)
NoneTwice == \A f \in Family :
    /\ ~manifest.items[f].twice
    /\ run.used[f].twice => /\ run.limit # NoLimit
                            /\ run.seen.items[f] = None \/ f \in run.disturbed

(* How many of the first n items of a plan are of a group, which is named  *)
(* by component c of an item: its family or its sub-family.                *)
Count(plan, c, g, n) == Cardinality({i \in 1..n : plan[i][c] = g})

(* The plan is a merge of the families: the n-th item of a family in it is *)
(* the n-th that was loaded, and each sub-family keeps its order likewise; *)
(* nothing up to the limit is left out.                                    *)
PlanMerges == run.pc = "planned" =>
    \A k \in 1..Len(run.fams) :
        LET f == run.fams[k]
            items == run.loaded[k]
        IN  /\ \A i \in 1..Len(run.plan) : run.plan[i][1] = f =>
                  /\ Count(run.plan, 1, f, i) <= Len(items)
                  /\ run.plan[i] = items[Count(run.plan, 1, f, i)]
            /\ Count(run.plan, 1, f, Len(run.plan)) = Len(items)
            /\ \A i \in 1..Len(items) :
                  items[i][3] = Count(items, 2, items[i][2], i)
            /\ run.limit = NoLimit => \A j \in 1..SubFamilies[f] :
                  Count(items, 2, j, Len(items)) = SizeOf(f, j, run.used[f].n)

(* A time budget or a kill cuts the plan anywhere: no family that still    *)
(* has items is behind another by more than one item, and one for each     *)
(* family that has run out; nor is a sub-family within its family.         *)
Fair(plan, c) ==
    LET groups == {plan[i][c] : i \in 1..Len(plan)}
        Open(n) == {g \in groups : Count(plan, c, g, n) < Count(plan, c, g, Len(plan))}
    IN  \A n \in 1..Len(plan) : \A g, h \in Open(n) :
            Count(plan, c, g, n) <= Count(plan, c, h, n) + 1 + Cardinality(groups \ Open(n))
PlanIsFair == run.pc = "planned" =>
    /\ Fair(run.plan, 1)
    /\ \A k \in 1..Len(run.fams) : Fair(run.loaded[k], 2)

(* The plan of a run is a fair merge of its items.                         *)
FairMerge == PlanMerges /\ PlanIsFair

(* An entry never vanishes, and changes only if this prepare has built the *)
(* family without a failure.                                               *)
EntriesStay == [][\A f \in Family : manifest.items[f] # None =>
    /\ manifest'.items[f] # None
    /\ manifest'.items[f] # manifest.items[f] => manifest'.items[f] = file[f]]_vars

=============================================================================
