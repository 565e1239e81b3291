------------------------ MODULE SurveyCheckpointProofs -------------------------
(***************************************************************************)
(* The checkpoints of one Survey: no stage begins before those in front of *)
(* it are durable, what is published is not run again, and what is         *)
(* delivered is complete, for any workflow, plans, papers, sections and    *)
(* tasks, wherever a task dies and whatever fails.                         *)
(***************************************************************************)
EXTENDS SurveyCheckpoint, TLAPS, WellFoundedInduction

Count == Len(Steps)

\* Two directories hold the same of these units.
Agree(F, G, U) == U \subseteq DOMAIN F /\ U \subseteq DOMAIN G /\ \A u \in U : F[u] = G[u]

StepDone(F, i, U) == Fan(F, Steps[i]).valid /\ UnitsOf(F, Steps[i]) \subseteq U

\* The steps in front of a place are valid and all their units among these.
DoneBefore(F, at, U) == \A i \in 1..Count : i < at => StepDone(F, i, U)

-----------------------------------------------------------------------------
(* The inductive invariant.                                                *)

TaskRecord ==
    task = [id |-> task.id, pc |-> task.pc, held |-> task.held, completed |-> task.completed,
            at |-> task.at, retried |-> task.retried, stop |-> task.stop]

Shapes ==
    /\ job = [status |-> job.status, outcome |-> job.outcome, charged |-> job.charged, expired |-> job.expired]
    /\ TaskRecord
    /\ unit = [u \in Units |-> unit[u]]
    /\ publish = [phase |-> publish.phase, unit |-> publish.unit, files |-> publish.files, left |-> publish.left]

\* A manifest adds a unit of an open step to units that hold every step before that one.
Continues(m) ==
    \E j \in 1..Count : \E u \in UnitsOf(m.files, Steps[j]) :
        /\ u \in m.units
        /\ m.units \subseteq DOMAIN m.files
        /\ DoneBefore(m.files, j, m.units)
        /\ DOMAIN m.files \subseteq m.units \cup UnitsOf(m.files, Steps[j])

\* What has been published on top of the pointer: it falls behind by what has slipped at most.
Succeeds(m) ==
    /\ m.parent = pointer.units
    /\ DoneBefore(m.files, Open(pointer.files, pointer.units), m.units)
    /\ pointer.units \ m.units \subseteq slipped

ManifestsFit ==
    /\ pointer \in manifests \cup {NoManifest}
    /\ pointer.seq \in Nat
    /\ \A m \in manifests :
          /\ Continues(m)
          /\ m.seq \in Nat /\ m.seq <= pointer.seq + 1
          /\ m.seq = pointer.seq + 1 => Succeeds(m)

\* Nothing has been published on top of the pointer.
PointerIsLast == \A m \in manifests : m.seq # pointer.seq + 1

\* Where the task is in the life of the job.
PlacesFit ==
    /\ task.pc \in {"none", "claimed", "located", "execute", "archive", "uploaded"}
    /\ task.pc = "execute" => job.status = "running"
    /\ task.pc \in {"archive", "uploaded"} => job.status = "archiving"
    /\ job.status \in {"queued", "running", "archiving", "finished"}
    /\ job.status \in {"queued", "running"} => job.outcome = "none"
    /\ task.pc # "none" => job.status \in {"running", "archiving"}
    /\ task.pc \in {"claimed", "located"} => task.held = pointer
    /\ task.pc = "located" => PointerIsLast
    /\ task.pc = "execute" => \A m \in manifests : m.seq = pointer.seq + 1 => m.by = task.id

\* What a task that executes knows of the committed checkpoint, which may be one unit ahead
\* of it.
HeldFits ==
    /\ task.held.seq \in Nat
    /\ task.completed \subseteq task.held.units
    /\ task.completed \subseteq pointer.units
    /\ pointer = task.held \/ pointer.seq = task.held.seq + 1
    /\ task.at = Count + 1 => pointer = task.held /\ PointerIsLast

\* Units that have slipped from it are of the open step, and leave it open.
SlipsFit ==
    \A s \in task.held.units \ task.completed :
        /\ task.at \in 1..Count
        /\ s \in UnitsOf(root, Steps[task.at]) \cap slipped
        /\ unit[s] = "unpublished" \/ \E w \in UnitsOf(root, Steps[task.at]) : w \notin task.held.units

\* What its directory holds.
RootFits ==
    /\ Agree(root, pointer.files, task.completed)
    /\ task.at \in 1..(Count + 1)
    /\ DoneBefore(root, task.at, task.completed)
    /\ task.at \in 1..Count => ~StepDone(root, task.at, task.completed)
    /\ DOMAIN root \subseteq task.completed
          \cup (IF task.at \in 1..Count THEN UnitsOf(root, Steps[task.at]) ELSE {})

ExecutionFits == task.pc = "execute" => HeldFits /\ SlipsFit /\ RootFits

\* A unit that has begun belongs to the open step.
UnitsFit ==
    \A u \in Units : unit[u] \notin {"todo", "done"} =>
        /\ task.pc = "execute"
        /\ task.at \in 1..Count
        /\ u \in UnitsOf(root, Steps[task.at]) \ task.completed

\* The directory as it was hashed still tells the truth of everything that does not run.
PublishFits ==
    /\ publish # Idle =>
          /\ publish.phase \in {"objects", "manifest"}
          /\ publish.unit \in Units
          /\ unit[publish.unit] = "returned"
          /\ Agree(publish.files, root, task.completed \cup {publish.unit})
          /\ DOMAIN publish.files \subseteq DOMAIN root
          /\ \A f \in DOMAIN publish.files \ publish.left :
                Stored(f, publish.files[f]) \/ Spoilt(f, publish.files[f])
    /\ publish.phase = "manifest" => NewManifest \in manifests

\* What is settled as a success is complete in the pointer, and what is archived agrees with it.
Complete(m) == DoneBefore(m.files, Count + 1, m.units) /\ DOMAIN m.files \subseteq m.units
Faithful(files) == Agree(files, pointer.files, pointer.units) /\ DOMAIN files \subseteq pointer.units

SettledFits ==
    job.outcome = "succeeded" =>
        /\ Complete(pointer) /\ PointerIsLast
        /\ job.charged => \A u \in DOMAIN pointer.files :
              u[1] \in Shards \cup {"reference_seeds"} => pointer.files[u][2] # "failed"
        /\ task.pc \in {"archive", "uploaded"} => Faithful(root)
        /\ task.pc = "uploaded" \/ job.status = "finished" => Faithful(archive)

CheckpointInv ==
    /\ Shapes /\ ManifestsAreLast /\ ManifestsFit /\ PlacesFit
    /\ ExecutionFits /\ UnitsFit /\ PublishFits /\ SettledFits

-----------------------------------------------------------------------------
(* The workflow.                                                           *)

LEMMA LeastExists ==
    ASSUME NEW S \in SUBSET Nat, S # {}
    PROVE  Min(S) \in S /\ \A i \in S : Min(S) <= i
<1>1. IsWellFoundedOn(OpToRel(<, Nat), Nat)
  BY NatLessThanWellFounded
<1>2. PICK x \in S : \A y \in S : ~(<<y, x>> \in OpToRel(<, Nat))
  BY <1>1, WFMin
<1>3. \A y \in S : x <= y
  <2> SUFFICES ASSUME NEW y \in S PROVE x <= y
    OBVIOUS
  <2>1. <<y, x>> \in Nat \X Nat /\ ~(<<y, x>> \in OpToRel(<, Nat))
    BY <1>2
  <2>2. ~(y < x)
    BY <2>1 DEF OpToRel
  <2> QED
    BY <2>2
<1> QED
  BY <1>3 DEF Min

LEMMA StepsFacts ==
    /\ Count \in Nat /\ DOMAIN Steps = 1..Count
    /\ \A i \in 1..Count : Place(Steps[i]) = i
    /\ \A i, j \in 1..Count : Steps[i] = Steps[j] => i = j
    /\ \A i, j \in 1..Count : i < j => Rank(Steps[i]) < Rank(Steps[j])
    /\ \A i \in 1..Count : Rank(Steps[i]) \in Nat /\ Steps[i] \in ToSet(Steps)
<1>1. Count \in Nat /\ DOMAIN Steps = 1..Count
  BY UnitConstants DEF Count
<1>2. \A i \in 1..Count : Rank(Steps[i]) \in Nat /\ Steps[i] \in ToSet(Steps)
  <2> SUFFICES ASSUME NEW i \in 1..Count PROVE Rank(Steps[i]) \in Nat /\ Steps[i] \in ToSet(Steps)
    OBVIOUS
  <2>1. Steps[i] \in ToSet(Workflow)
    BY <1>1, UnitConstants
  <2>2. \E k \in DOMAIN Workflow : Workflow[k] = Steps[i]
    BY <2>1 DEF ToSet
  <2>3. DOMAIN Workflow \subseteq Nat
    BY DEF Workflow
  <2> QED
    BY <1>1, <2>2, <2>3 DEF Rank, ToSet
<1>3. \A i, j \in 1..Count : i < j => Rank(Steps[i]) < Rank(Steps[j])
  BY <1>1, UnitConstants
<1>4. \A i, j \in 1..Count : Steps[i] = Steps[j] => i = j
  <2> SUFFICES ASSUME NEW i \in 1..Count, NEW j \in 1..Count, Steps[i] = Steps[j], i < j
               PROVE  FALSE
    BY <1>1
  <2>1. Rank(Steps[i]) < Rank(Steps[j])
    BY <1>3
  <2> DEFINE r == Rank(Steps[i])
  <2>2. r \in Nat /\ r < r
    BY <1>2, <2>1
  <2> HIDE DEF r
  <2> QED
    BY <2>2
<1>5. \A i \in 1..Count : Place(Steps[i]) = i
  BY <1>1, <1>4 DEF Place
<1> QED
  BY <1>1, <1>2, <1>3, <1>4, <1>5

LEMMA Ranks ==
    /\ Rank("citation_seed") = 4 /\ Rank("reference_seeds") = 5
    /\ Rank("card_plan") = 11 /\ Rank("paper_cards") = 12
    /\ Rank("outline_plan") = 16 /\ Rank("sections") = 17
<1>1. DOMAIN Workflow = 1..18
  BY DEF Workflow
<1>2. /\ Workflow[4] = "citation_seed" /\ \A i \in 1..18 : Workflow[i] = "citation_seed" => i = 4
      /\ Workflow[5] = "reference_seeds" /\ \A i \in 1..18 : Workflow[i] = "reference_seeds" => i = 5
      /\ Workflow[11] = "card_plan" /\ \A i \in 1..18 : Workflow[i] = "card_plan" => i = 11
      /\ Workflow[12] = "paper_cards" /\ \A i \in 1..18 : Workflow[i] = "paper_cards" => i = 12
      /\ Workflow[16] = "outline_plan" /\ \A i \in 1..18 : Workflow[i] = "outline_plan" => i = 16
      /\ Workflow[17] = "sections" /\ \A i \in 1..18 : Workflow[i] = "sections" => i = 17
  BY DEF Workflow
<1> QED
  BY <1>1, <1>2 DEF Rank

\* The steps whose files say what a step is fanned out into.
Needs(step) ==
    CASE step = "reference_seeds" -> {"citation_seed"}
      [] step = "paper_cards" -> {"card_plan"}
      [] step = "sections" -> {"card_plan", "outline_plan"}
      [] OTHER -> {}

LEMMA NeedsAreEarlier ==
    ASSUME NEW j \in 1..Count, NEW p \in Needs(Steps[j])
    PROVE  \E i \in 1..Count : i < j /\ Steps[i] = p /\ \A F : UnitsOf(F, Steps[i]) = {<<p, Whole>>}
<1>1. p \in {"citation_seed", "card_plan", "outline_plan"} /\ Rank(p) < Rank(Steps[j])
  BY Ranks DEF Needs
<1>2. p \in ToSet(Steps)
  BY <1>1, UnitConstants
<1>3. PICK i \in 1..Count : Steps[i] = p
  BY <1>2, StepsFacts DEF ToSet
<1>4. i < j
  <2> DEFINE r == Rank(Steps[i])
             q == Rank(Steps[j])
  <2>1. r \in Nat /\ q \in Nat /\ r < q /\ (j < i => q < r) /\ (i = j => r = q)
    BY <1>1, <1>3, StepsFacts
  <2>2. i \in Nat /\ j \in Nat
    BY StepsFacts
  <2> HIDE DEF r, q
  <2> QED
    BY <2>1, <2>2
<1>5. ASSUME NEW F PROVE UnitsOf(F, Steps[i]) = {<<p, Whole>>}
  <2>1. Fan(F, p) = UnitsFor({Whole})
    BY <1>1 DEF Fan
  <2> QED
    BY <1>3, <2>1 DEF UnitsOf, UnitsFor
<1> QED
  BY <1>3, <1>4, <1>5

\* Fans depend on nothing else.
LEMMA FanDepends ==
    ASSUME NEW F, NEW G, NEW step,
           \A p \in Needs(step) : /\ <<p, Whole>> \in DOMAIN F /\ <<p, Whole>> \in DOMAIN G
                                  /\ F[<<p, Whole>>] = G[<<p, Whole>>]
    PROVE  Fan(F, step) = Fan(G, step)
<1>1. CASE step = "reference_seeds"
  BY <1>1 DEF Needs, Fan, Seeded, Written, Plan
<1>2. CASE step = "paper_cards"
  BY <1>2 DEF Needs, Fan, Cards, Written, Plan
<1>3. CASE step = "sections"
  <2>1. Cards(F) = Cards(G)
    BY <1>3 DEF Needs, Cards, Written, Plan
  <2> QED
    BY <1>3, <2>1 DEF Needs, Fan, Sections, Written, Plan
<1>4. CASE step \notin {"reference_seeds", "paper_cards", "sections"}
  BY <1>4 DEF Fan
<1> QED
  BY <1>1, <1>2, <1>3, <1>4

\* The steps in front of a place, and the step there, are fanned out alike in two directories
\* that hold the same of the units that are done.
LEMMA FansStay ==
    ASSUME NEW F, NEW G, NEW U, NEW at \in 1..(Count + 1), DoneBefore(F, at, U), Agree(F, G, U)
    PROVE  /\ \A i \in 1..Count : i <= at => Fan(G, Steps[i]) = Fan(F, Steps[i])
           /\ \A i \in 1..Count : i <= at => UnitsOf(G, Steps[i]) = UnitsOf(F, Steps[i])
           /\ DoneBefore(G, at, U)
<1>1. ASSUME NEW i \in 1..Count, i <= at
      PROVE  Fan(G, Steps[i]) = Fan(F, Steps[i])
  <2>1. ASSUME NEW p \in Needs(Steps[i])
        PROVE  <<p, Whole>> \in U
    <3>1. PICK k \in 1..Count : k < i /\ Steps[k] = p /\ \A H : UnitsOf(H, Steps[k]) = {<<p, Whole>>}
      BY NeedsAreEarlier
    <3>2. k < at
      BY <1>1, <3>1, StepsFacts
    <3> QED
      BY <3>1, <3>2 DEF DoneBefore, StepDone
  <2> QED
    BY <2>1, FanDepends DEF Agree
<1>2. \A i \in 1..Count : i <= at => UnitsOf(G, Steps[i]) = UnitsOf(F, Steps[i])
  BY <1>1 DEF UnitsOf
<1>3. DoneBefore(G, at, U)
  <2> SUFFICES ASSUME NEW i \in 1..Count, i < at PROVE StepDone(G, i, U)
    BY DEF DoneBefore
  <2>1. StepDone(F, i, U) /\ i <= at
    BY StepsFacts DEF DoneBefore
  <2> QED
    BY <1>1, <1>2, <2>1 DEF StepDone
<1> QED
  BY <1>1, <1>2, <1>3

LEMMA OpenFacts ==
    ASSUME NEW F, NEW U
    PROVE  /\ Open(F, U) \in 1..(Count + 1)
           /\ DoneBefore(F, Open(F, U), U)
           /\ Open(F, U) \in 1..Count => ~StepDone(F, Open(F, U), U)
<1> DEFINE left == {i \in DOMAIN Steps : \/ ~Fan(F, Steps[i]).valid
                                         \/ ~(UnitsOf(F, Steps[i]) \subseteq U)}
<1>0. Count \in Nat /\ DOMAIN Steps = 1..Count
  BY StepsFacts
<1>1. \A i \in 1..Count : i \in left <=> ~StepDone(F, i, U)
  BY <1>0 DEF StepDone
<1>2. Open(F, U) = IF left = {} THEN Count + 1 ELSE Min(left)
  BY DEF Open, Count
<1>3. left \in SUBSET Nat /\ left \subseteq 1..Count
  BY <1>0
<1> HIDE DEF left
<1>4. CASE left = {}
  BY <1>0, <1>1, <1>2, <1>4 DEF DoneBefore
<1>5. CASE left # {}
  <2>1. Min(left) \in left /\ \A i \in left : Min(left) <= i
    BY <1>3, <1>5, LeastExists
  <2>2. PICK least : least = Min(left)
    OBVIOUS
  <2>3. Open(F, U) = least
    BY <1>2, <1>5, <2>2
  <2>4. least \in left /\ \A i \in left : least <= i
    BY <2>1, <2>2
  <2>5. least \in 1..Count /\ \A i \in 1..Count : i < least => i \notin left
    BY <1>0, <1>3, <2>4
  <2> QED
    BY <1>0, <1>1, <2>3, <2>4, <2>5 DEF DoneBefore
<1> QED
  BY <1>4, <1>5

LEMMA NoItems ==
    ASSUME NEW F, NEW step
    PROVE  /\ ~Fan(F, step).valid => UnitsOf(F, step) = {}
           /\ UnitsOf(F, step) # {} => Fan(F, step).valid
<1>1. Fan(F, step) = NoUnits \/ \E items : Fan(F, step) = UnitsFor(items)
  BY DEF Fan, Seeded, Cards, Sections, SeedsFound, CardsPlanned, SectionsPlanned
<1> QED
  BY <1>1 DEF NoUnits, UnitsFor, UnitsOf

LEMMA UnitsAreUnits ==
    ASSUME NEW F, NEW i \in 1..Count
    PROVE  /\ UnitsOf(F, Steps[i]) \subseteq Units
           /\ \A u \in UnitsOf(F, Steps[i]) : u[1] = Steps[i]
<1>1. Steps[i] \in ToSet(Steps)
  BY StepsFacts
<1>2. CASE Steps[i] = "reference_seeds"
  <2>1. Fan(F, Steps[i]).items \subseteq Papers
    BY <1>2 DEF Fan, Seeded, SeedsFound, UnitsFor, NoUnits
  <2> QED
    BY <1>1, <1>2, <2>1 DEF UnitsOf, Units
<1>3. CASE Steps[i] = "paper_cards"
  <2>1. Fan(F, Steps[i]).items \subseteq Papers
    BY <1>3 DEF Fan, Cards, CardsPlanned, UnitsFor, NoUnits
  <2> QED
    BY <1>1, <1>3, <2>1 DEF UnitsOf, Units
<1>4. CASE Steps[i] = "sections"
  <2>1. Fan(F, Steps[i]).items \subseteq Slugs
    BY <1>4 DEF Fan, Sections, SectionsPlanned, UnitsFor, NoUnits
  <2> QED
    BY <1>4, <2>1 DEF UnitsOf, Units
<1>5. CASE Steps[i] \notin FannedOut
  <2>1. Fan(F, Steps[i]).items = {Whole}
    BY <1>5 DEF Fan, FannedOut, UnitsFor
  <2> QED
    BY <1>1, <1>5, <2>1 DEF UnitsOf, Units
<1> QED
  BY <1>2, <1>3, <1>4, <1>5 DEF FannedOut

\* The place of the open step behind steps that are done.
LEMMA OpenAfter ==
    ASSUME NEW F, NEW U, NEW at \in 1..Count, DoneBefore(F, at, U)
    PROVE  /\ Open(F, U) \in 1..(Count + 1) /\ at <= Open(F, U)
           /\ ~StepDone(F, at, U) => Open(F, U) = at
           /\ Open(F, U) # at => UnitsOf(F, Steps[at]) \subseteq U
<1> DEFINE open == Open(F, U)
<1>1. /\ open \in 1..(Count + 1) /\ DoneBefore(F, open, U)
      /\ open \in 1..Count => ~StepDone(F, open, U)
  BY OpenFacts
<1> HIDE DEF open
<1>2. Count \in Nat /\ open \in Nat /\ at \in Nat
  BY <1>1, StepsFacts
<1>3. at <= open
  BY <1>1, <1>2 DEF DoneBefore
<1>4. at < open => StepDone(F, at, U)
  BY <1>1 DEF DoneBefore
<1>5. /\ open \in 1..(Count + 1) /\ at <= open
      /\ ~StepDone(F, at, U) => open = at
      /\ open # at => UnitsOf(F, Steps[at]) \subseteq U
  BY <1>1, <1>2, <1>3, <1>4 DEF StepDone
<1> QED
  BY <1>5 DEF open

\* The files of a manifest: those of its units, and of the step it leaves open.
LEMMA ManifestFiles ==
    ASSUME NEW m, m = NoManifest \/ Continues(m)
    PROVE  /\ m.units \subseteq DOMAIN m.files
           /\ DOMAIN m.files \subseteq m.units
                 \cup (IF Open(m.files, m.units) \in 1..Count
                       THEN UnitsOf(m.files, Steps[Open(m.files, m.units)]) ELSE {})
<1>1. CASE m = NoManifest
  BY <1>1 DEF NoManifest, NoFiles
<1>2. CASE Continues(m)
  <2>1. PICK j \in 1..Count :
               /\ m.units \subseteq DOMAIN m.files
               /\ DoneBefore(m.files, j, m.units)
               /\ DOMAIN m.files \subseteq m.units \cup UnitsOf(m.files, Steps[j])
    BY <1>2 DEF Continues
  <2>2. Open(m.files, m.units) # j => UnitsOf(m.files, Steps[j]) \subseteq m.units
    BY <2>1, OpenAfter
  <2> QED
    BY <2>1, <2>2
<1> QED
  BY <1>1, <1>2

LEMMA OpenBehind ==
    ASSUME NEW F, NEW U, NEW at \in 1..(Count + 1), DoneBefore(F, at, U)
    PROVE  at <= Open(F, U)
<1> DEFINE open == Open(F, U)
<1>1. open \in 1..(Count + 1) /\ (open \in 1..Count => ~StepDone(F, open, U))
  BY OpenFacts
<1> HIDE DEF open
<1>2. Count \in Nat /\ open \in Nat /\ at \in Nat
  BY <1>1, StepsFacts
<1>3. open < at => open \in 1..Count
  BY <1>1, <1>2
<1>4. at <= open
  BY <1>1, <1>2, <1>3 DEF DoneBefore
<1> QED
  BY <1>4 DEF open

-----------------------------------------------------------------------------
(* The steps of a task.                                                    *)

\* A step that changes nothing on S3 but adds objects, and leaves the pointer alone.
LEMMA ManifestsStay ==
    ASSUME CheckpointInv, UNCHANGED <<pointer, manifests, slipped>>, objects \subseteq objects'
    PROVE  ManifestsAreLast' /\ ManifestsFit'
BY DEF CheckpointInv, ManifestsAreLast, ManifestsFit, Succeeds, Stored, Spoilt

\* One that leaves alone all that an execution rests on.
LEMMA ExecutionStays ==
    ASSUME ExecutionFits, UNCHANGED <<pointer, manifests, slipped, task, unit, root>>
    PROVE  ExecutionFits'
BY DEF ExecutionFits, HeldFits, SlipsFit, RootFits, PointerIsLast

LEMMA ClaimKeeps ==
    ASSUME CheckpointInv, Claim PROVE CheckpointInv'
<1> USE DEF CheckpointInv
<1>1. publish = Idle /\ \A u \in Units : unit[u] \in {"todo", "done"}
  BY DEF Claim, PublishFits, UnitsFit
<1>2. /\ task'.pc = "claimed" /\ task'.held = pointer
      /\ job'.outcome = job.outcome /\ job'.charged = job.charged
      /\ job'.status \in {"running", "archiving"}
      /\ job'.status = "archiving" => job.status = "archiving"
      /\ job.status = "archiving" => job'.status = "archiving"
      /\ job.outcome # "none" => job'.status = "archiving"
  BY DEF Claim, PlacesFit, Shapes, NoTask
<1>3. Shapes'
  BY DEF Claim, Shapes, TaskRecord, NoTask
<1>4. ManifestsAreLast' /\ ManifestsFit'
  BY ManifestsStay DEF Claim, onS3
<1>5. PlacesFit'
  BY <1>2 DEF Claim, onS3, PlacesFit
<1>6. ExecutionFits' /\ UnitsFit' /\ PublishFits'
  BY <1>1, <1>2 DEF Claim, onS3, ExecutionFits, UnitsFit, PublishFits, Idle
<1>7. SettledFits'
  BY <1>2 DEF Claim, onS3, SettledFits, Faithful, PointerIsLast
<1> QED
  BY <1>3, <1>4, <1>5, <1>6, <1>7

\* The disk is lost, with or without the end of the archive.
LEMMA EndsKeeps ==
    ASSUME CheckpointInv, Ends, UNCHANGED <<pointer, onS3, slipped>>, task.pc # "none",
           job' = job \/ (task.pc = "uploaded" /\ job' = [job EXCEPT !.status = "finished"])
    PROVE  CheckpointInv'
<1> USE DEF CheckpointInv
<1>1. /\ task'.pc = "none" /\ publish' = Idle /\ \A u \in Units : unit'[u] = "todo"
      /\ job'.outcome = job.outcome /\ job'.charged = job.charged
      /\ job'.status = job.status \/ (task.pc = "uploaded" /\ job'.status = "finished")
  BY DEF Ends, NoTask, Shapes
<1>3. Shapes'
  BY DEF Ends, Shapes, TaskRecord, NoTask, Idle
<1>4. ManifestsAreLast' /\ ManifestsFit'
  BY ManifestsStay DEF onS3
<1>5. PlacesFit'
  BY <1>1 DEF onS3, PlacesFit
<1>6. ExecutionFits' /\ UnitsFit' /\ PublishFits'
  BY <1>1 DEF onS3, ExecutionFits, UnitsFit, PublishFits, Idle
<1>7. SettledFits'
  BY <1>1 DEF onS3, SettledFits, Faithful, PlacesFit, PointerIsLast
<1> QED
  BY <1>3, <1>4, <1>5, <1>6, <1>7

LEMMA FindSuccessorKeeps ==
    ASSUME CheckpointInv, FindSuccessor PROVE CheckpointInv'
<1> USE DEF CheckpointInv
<1>0. task.pc = "claimed" /\ task.held = pointer /\ UNCHANGED <<job, onS3, slipped>>
  BY DEF FindSuccessor, PlacesFit
<1>1. publish = Idle /\ \A u \in Units : unit[u] \in {"todo", "done"}
  BY <1>0 DEF PublishFits, UnitsFit
<1>2. CASE Ends /\ UNCHANGED pointer
  BY <1>0, <1>2, EndsKeeps
<1>3. CASE /\ Successors(task.held) = {}
           /\ task' = [task EXCEPT !.pc = "located"]
           /\ UNCHANGED <<pointer, unit, root, publish>>
  <2>1. task'.pc = "located" /\ task'.held = pointer /\ Shapes'
    BY <1>0, <1>3 DEF Shapes, TaskRecord
  <2>2. ManifestsAreLast' /\ ManifestsFit'
    BY <1>0, <1>3, ManifestsStay DEF onS3
  <2>3. PointerIsLast /\ PointerIsLast'
    BY <1>0, <1>3 DEF PointerIsLast, Successors, ManifestsFit, Succeeds, onS3
  <2>4. PlacesFit'
    BY <1>0, <1>3, <2>1, <2>3 DEF PlacesFit
  <2>5. ExecutionFits' /\ UnitsFit' /\ PublishFits'
    BY <1>1, <1>3, <2>1 DEF ExecutionFits, UnitsFit, PublishFits, Idle
  <2>6. SettledFits'
    BY <1>0, <1>3, <2>1, <2>3 DEF SettledFits, Faithful, onS3
  <2> QED
    BY <2>1, <2>2, <2>4, <2>5, <2>6
<1>4. ASSUME NEW m \in Successors(task.held), pointer' = m,
             task' = [task EXCEPT !.pc = "located", !.held = m],
             UNCHANGED <<unit, root, publish>>
      PROVE  CheckpointInv'
  <2>1. m \in manifests /\ m.seq = pointer.seq + 1 /\ m.seq \in Nat /\ pointer.seq \in Nat
    BY <1>0 DEF Successors, ManifestsFit
  <2>2. task'.pc = "located" /\ task'.held = m /\ Shapes'
    BY <1>0, <1>4 DEF Shapes, TaskRecord
  <2>3. ManifestsAreLast'
    BY <1>0 DEF ManifestsAreLast, Stored, Spoilt, onS3
  <2>4. \A n \in manifests : n.seq \in Nat /\ n.seq <= m.seq /\ n.seq <= m.seq + 1 /\ n.seq # m.seq + 1
    BY <2>1 DEF ManifestsFit
  <2>5. ManifestsFit'
    BY <1>0, <1>4, <2>1, <2>4 DEF ManifestsFit, onS3
  <2>6. PlacesFit'
    BY <1>0, <1>4, <2>2, <2>4 DEF PlacesFit, PointerIsLast, onS3
  <2>7. ExecutionFits' /\ UnitsFit' /\ PublishFits'
    BY <1>1, <1>4, <2>2 DEF ExecutionFits, UnitsFit, PublishFits, Idle
  <2>8. SettledFits'
    <3>1. job.outcome # "succeeded"
      BY <2>1 DEF SettledFits, PointerIsLast
    <3> QED
      BY <1>0, <3>1 DEF SettledFits
  <2> QED
    BY <2>2, <2>3, <2>5, <2>6, <2>7, <2>8
<1> QED
  BY <1>2, <1>3, <1>4 DEF FindSuccessor

\* The files of the pointer are those of a manifest, or there is none.
LEMMA PointerFiles ==
    ASSUME CheckpointInv
    PROVE  /\ pointer.units \subseteq DOMAIN pointer.files
           /\ DOMAIN pointer.files \subseteq pointer.units
                 \cup (IF Open(pointer.files, pointer.units) \in 1..Count
                       THEN UnitsOf(pointer.files, Steps[Open(pointer.files, pointer.units)]) ELSE {})
<1>1. pointer = NoManifest \/ Continues(pointer)
  BY DEF CheckpointInv, ManifestsFit
<1> QED
  BY <1>1, ManifestFiles

LEMMA RestoreKeeps ==
    ASSUME CheckpointInv, Restore PROVE CheckpointInv'
<1> USE DEF CheckpointInv
<1>0. task.pc = "located" /\ task.held = pointer /\ PointerIsLast /\ UNCHANGED <<job, pointer, onS3>>
  BY DEF Restore, PlacesFit
<1>1. publish = Idle /\ \A u \in Units : unit[u] \in {"todo", "done"}
  BY <1>0 DEF PublishFits, UnitsFit
<1>2. CASE Ends /\ UNCHANGED slipped
  BY <1>0, <1>2, EndsKeeps
<1>3. CASE ~(Ends /\ UNCHANGED slipped)
  <2>1. root' = pointer.files /\ UNCHANGED <<unit, publish>>
    BY <1>0, <1>3 DEF Restore, Restored
  <2>2. ManifestsAreLast' /\ ManifestsFit'
    BY <1>0 DEF ManifestsAreLast, ManifestsFit, PointerIsLast, Stored, Spoilt, onS3
  <2>3. PublishFits'
    BY <1>1, <2>1 DEF PublishFits, Idle
  <2>4. UnitsFit'
    BY <1>1, <2>1 DEF UnitsFit
  <2>5. CASE job.status = "running"
    <3> DEFINE open == Open(pointer.files, pointer.units)
    <3>1. /\ task'.pc = "execute" /\ task'.held = pointer /\ task'.completed = pointer.units
          /\ task'.at = open /\ task'.id = task.id /\ Shapes'
      BY <1>0, <1>3, <2>1, <2>5 DEF Restore, Shapes, TaskRecord
    <3>2. PlacesFit'
      BY <1>0, <2>5, <3>1 DEF PlacesFit, PointerIsLast, onS3
    <3>3. /\ open \in 1..(Count + 1) /\ DoneBefore(pointer.files, open, pointer.units)
          /\ open \in 1..Count => ~StepDone(pointer.files, open, pointer.units)
      BY OpenFacts
    <3>4. /\ pointer.units \subseteq DOMAIN pointer.files
          /\ DOMAIN pointer.files \subseteq pointer.units
                \cup (IF open \in 1..Count THEN UnitsOf(pointer.files, Steps[open]) ELSE {})
      BY PointerFiles
    <3> HIDE DEF open
    <3>5. ExecutionFits'
      <4>1. HeldFits'
        BY <1>0, <3>1 DEF HeldFits, ManifestsFit, PointerIsLast, onS3
      <4>2. SlipsFit'
        BY <3>1 DEF SlipsFit
      <4>3. RootFits'
        BY <1>0, <2>1, <3>1, <3>3, <3>4 DEF RootFits, Agree
      <4> QED
        BY <4>1, <4>2, <4>3 DEF ExecutionFits
    <3>6. SettledFits'
      BY <1>0, <2>5 DEF SettledFits, PlacesFit
    <3> QED
      BY <2>2, <2>3, <2>4, <3>1, <3>2, <3>5, <3>6
  <2>6. CASE job.status # "running"
    <3>1. task'.pc = "archive" /\ task'.id = task.id /\ Shapes' /\ job.status = "archiving"
      BY <1>0, <1>3, <2>1, <2>6 DEF Restore, Shapes, TaskRecord, NoTask, PlacesFit
    <3>2. PlacesFit' /\ ExecutionFits'
      BY <1>0, <3>1 DEF PlacesFit, ExecutionFits, onS3
    <3>3. SettledFits'
      <4> SUFFICES ASSUME job.outcome = "succeeded"
                   PROVE  SettledFits'
        BY <1>0 DEF SettledFits
      <4>1. Complete(pointer)
        BY DEF SettledFits
      <4>2. Agree(pointer.files, pointer.files, pointer.units) /\ DOMAIN pointer.files \subseteq pointer.units
        BY <4>1, PointerFiles DEF Agree, Complete
      <4> QED
        BY <1>0, <2>1, <3>1, <4>2 DEF SettledFits, Faithful, PointerIsLast, onS3
    <3> QED
      BY <2>2, <2>3, <2>4, <3>1, <3>2, <3>3
  <2> QED
    BY <2>5, <2>6
<1> QED
  BY <1>2, <1>3

\* A unit starts, writes or ends: its file may change and no other, and nothing else does.
Works(u) ==
    /\ task.pc = "execute" /\ task.at \in 1..Count
    /\ u \in UnitsOf(root, Steps[task.at]) \ task.completed
    /\ unit[u] \in {"todo", "running"}
    /\ \A v \in Units \ {u} : unit'[v] = unit[v]
    /\ \/ root' = root
       \/ DOMAIN root' = DOMAIN root \cup {u} /\ \A f \in DOMAIN root \ {u} : root'[f] = root[f]
    /\ UNCHANGED <<pointer, onS3, publish, slipped>>
    /\ job'.status = job.status /\ job'.outcome = job.outcome
    /\ task'.id = task.id /\ task'.pc = task.pc /\ task'.held = task.held
    /\ task'.completed = task.completed /\ task'.at = task.at
    /\ Shapes'

LEMMA WorksKeeps ==
    ASSUME CheckpointInv, NEW u \in Units, Works(u) PROVE CheckpointInv'
<1> USE DEF CheckpointInv
<1> DEFINE at == task.at
           U == task.completed
<1>1. /\ DoneBefore(root, at, U) /\ U \subseteq pointer.units /\ U \subseteq DOMAIN root
      /\ at \in 1..Count /\ at \in 1..(Count + 1) /\ ~StepDone(root, at, U)
      /\ Agree(root, pointer.files, U)
  BY StepsFacts DEF Works, ExecutionFits, HeldFits, RootFits, Agree
<1>2. Agree(root, root', U)
  BY <1>1 DEF Works, Agree
<1>3. /\ UnitsOf(root', Steps[at]) = UnitsOf(root, Steps[at])
      /\ Fan(root', Steps[at]) = Fan(root, Steps[at])
      /\ DoneBefore(root', at, U)
  BY <1>1, <1>2, FansStay, StepsFacts
<1>4. /\ task'.at = at /\ task'.completed = U /\ task'.pc = "execute" /\ task'.held = task.held
      /\ task'.id = task.id /\ UNCHANGED <<pointer, onS3, publish, slipped>>
      /\ job'.status = "running" /\ job.status = "running" /\ job'.outcome = "none"
      /\ u \in UnitsOf(root, Steps[at]) /\ u \notin U
  BY DEF Works, PlacesFit
<1> HIDE DEF at, U
<1>5. ManifestsAreLast' /\ ManifestsFit'
  BY <1>4, ManifestsStay DEF onS3
<1>6. PlacesFit' /\ SettledFits' /\ Shapes'
  BY <1>4 DEF PlacesFit, SettledFits, PointerIsLast, onS3, Works
<1>7. ExecutionFits'
  <2>1. Agree(root', pointer.files, U)
    BY <1>1, <1>2 DEF Agree
  <2>2. DOMAIN root' \subseteq U \cup UnitsOf(root', Steps[at])
    <3>1. DOMAIN root' \subseteq DOMAIN root \cup {u}
      BY DEF Works
    <3>2. DOMAIN root \subseteq U \cup UnitsOf(root, Steps[at])
      BY <1>1, <1>4 DEF ExecutionFits, RootFits, Works, at, U
    <3> QED
      BY <1>3, <1>4, <3>1, <3>2
  <2>3. ~StepDone(root', at, U)
    BY <1>1, <1>3 DEF StepDone
  <2>4. HeldFits'
    BY <1>4 DEF ExecutionFits, HeldFits, PointerIsLast, Works, at, U, onS3
  <2>5. SlipsFit'
    <3> SUFFICES ASSUME NEW s \in task.held.units \ U
                 PROVE  /\ s \in UnitsOf(root, Steps[at]) \cap slipped
                        /\ unit'[s] = "unpublished" \/ \E w \in UnitsOf(root, Steps[at]) : w \notin task.held.units
      BY <1>1, <1>3, <1>4 DEF SlipsFit
    <3>1. /\ s \in UnitsOf(root, Steps[at]) \cap slipped
          /\ unit[s] = "unpublished" \/ \E w \in UnitsOf(root, Steps[at]) : w \notin task.held.units
      BY DEF ExecutionFits, SlipsFit, Works, at, U
    <3>2. s \in Units
      BY <1>1, <3>1, UnitsAreUnits
    <3> QED
      BY <3>1, <3>2 DEF Works
  <2>6. RootFits'
    BY <1>1, <1>3, <1>4, <2>1, <2>2, <2>3 DEF RootFits
  <2> QED
    BY <2>4, <2>5, <2>6 DEF ExecutionFits
<1>8. UnitsFit'
  <2>1. \A v \in Units : v # u /\ unit'[v] \notin {"todo", "done"} => v \in UnitsOf(root, Steps[at]) \ U
    BY DEF Works, UnitsFit, at, U
  <2> QED
    BY <1>1, <1>3, <1>4, <2>1 DEF UnitsFit
<1>9. PublishFits'
  <2> SUFFICES ASSUME publish # Idle PROVE PublishFits'
    BY <1>4 DEF PublishFits, Idle
  <2>1. unit[publish.unit] = "returned" /\ publish.unit \in Units /\ publish.unit # u
    BY DEF PublishFits, Works
  <2>2. Agree(publish.files, root', U \cup {publish.unit})
    <3>1. Agree(publish.files, root, U \cup {publish.unit})
      BY DEF PublishFits, U
    <3> QED
      BY <1>4, <2>1, <3>1 DEF Agree, Works
  <2>3. DOMAIN publish.files \subseteq DOMAIN root'
    BY DEF PublishFits, Works
  <2>4. unit'[publish.unit] = "returned"
    BY <2>1 DEF Works
  <2>5. NewManifest' = NewManifest
    BY <1>4 DEF NewManifest, U
  <2> QED
    BY <1>4, <2>1, <2>2, <2>3, <2>4, <2>5 DEF PublishFits, onS3, Stored, Spoilt
<1> QED
  BY <1>5, <1>6, <1>7, <1>8, <1>9

LEMMA StartUnitKeeps ==
    ASSUME CheckpointInv, StartUnit PROVE CheckpointInv'
<1>1. PICK u \in UnitsOf(root, Steps[task.at]) \ task.completed :
             unit[u] = "todo" /\ unit' = [unit EXCEPT ![u] = "running"]
  BY DEF StartUnit
<1>2. task.at \in 1..Count /\ u \in Units
  BY <1>1, StepsFacts, UnitsAreUnits DEF StartUnit
<1>3. Works(u)
  BY <1>1, <1>2 DEF StartUnit, Works, CheckpointInv, Shapes, TaskRecord
<1> QED
  BY <1>2, <1>3, WorksKeeps

LEMMA WriteFileKeeps ==
    ASSUME CheckpointInv, NEW u \in Units, WriteFile(u) PROVE CheckpointInv'
<1>1. Works(u)
  BY DEF WriteFile, Put, Works, CheckpointInv, Shapes, TaskRecord, UnitsFit
<1> QED
  BY <1>1, WorksKeeps

LEMMA UnitEndsKeeps ==
    ASSUME CheckpointInv, NEW u \in Units, UnitEnds(u) PROVE CheckpointInv'
<1>1. /\ \E x : unit' = [unit EXCEPT ![u] = x]
      /\ root' = root \/ \E says : Put(u, says)
  BY DEF UnitEnds, BuiltinEnds, ShardEnds, SeedEnds, RequiredEnds
<1>2. UNCHANGED <<job, task>> \/ \E why : Notice(why)
  BY DEF UnitEnds
<1>3. /\ job'.status = job.status /\ job'.outcome = job.outcome
      /\ task'.id = task.id /\ task'.pc = task.pc /\ task'.held = task.held
      /\ task'.completed = task.completed /\ task'.at = task.at
      /\ Shapes'
  BY <1>1, <1>2 DEF Notice, CheckpointInv, Shapes, TaskRecord, UnitEnds
<1>4. Works(u)
  BY <1>1, <1>3 DEF UnitEnds, Put, Works, CheckpointInv, UnitsFit, Shapes
<1> QED
  BY <1>4, WorksKeeps

-----------------------------------------------------------------------------
(* The checkpoint of a unit.                                               *)

LEMMA HashFilesKeeps ==
    ASSUME CheckpointInv, NEW u \in Units, HashFiles(u) PROVE CheckpointInv'
<1> USE DEF CheckpointInv
<1>1. /\ publish = Idle /\ unit[u] = "returned" /\ UNCHANGED <<job, pointer, onS3, task, root, slipped>>
      /\ task.pc = "execute" /\ task.at \in 1..Count /\ u \in UnitsOf(root, Steps[task.at]) \ task.completed
  BY DEF HashFiles, UnitsFit
<1>2. ManifestsAreLast' /\ ManifestsFit'
  BY <1>1, ManifestsStay DEF onS3
<1>3. PlacesFit' /\ SettledFits' /\ HeldFits' /\ RootFits'
  BY <1>1 DEF PlacesFit, ExecutionFits, HeldFits, RootFits, SettledFits, PointerIsLast, onS3, Faithful
<1>4. CASE u \in DOMAIN root
  <2>1. /\ publish' = [phase |-> "objects", unit |-> u, files |-> root,
                       left |-> {f \in DOMAIN root : ~Stored(f, root[f])}]
        /\ UNCHANGED unit
    BY <1>4 DEF HashFiles
  <2>2. Shapes' /\ UnitsFit' /\ ExecutionFits'
    BY <1>1, <2>1, ExecutionStays DEF Shapes, TaskRecord, UnitsFit, onS3
  <2>3. PublishFits'
    <3>1. Agree(root, root, task.completed \cup {u})
      BY <1>1, <1>4 DEF Agree, ExecutionFits, RootFits
    <3>2. publish'.phase = "objects" /\ publish'.unit = u /\ publish'.files = root
      BY <2>1
    <3>3. \A f \in DOMAIN root \ publish'.left : Stored(f, root[f])
      BY <2>1
    <3> QED
      BY <1>1, <2>1, <3>1, <3>2, <3>3 DEF PublishFits, onS3, Stored, Spoilt
  <2> QED
    BY <1>2, <1>3, <2>2, <2>3
<1>5. CASE u \notin DOMAIN root
  <2>1. unit' = [unit EXCEPT ![u] = "failed"] /\ UNCHANGED publish
    BY <1>5 DEF HashFiles
  <2>2. ExecutionFits'
    BY <1>1, <1>3, <2>1 DEF ExecutionFits, SlipsFit, Shapes
  <2> QED
    BY <1>1, <1>2, <1>3, <2>1, <2>2 DEF Shapes, TaskRecord, UnitsFit, PublishFits, Idle
<1> QED
  BY <1>4, <1>5

\* The unit whose checkpoint is not made may have slipped before.
LEMMA SlipsStay ==
    ASSUME CheckpointInv, publish # Idle, NEW why, Unpublished(why), UNCHANGED <<task, root, slipped>>
    PROVE  SlipsFit'
<1>1. unit[publish.unit] = "returned" /\ task.pc = "execute"
  BY DEF CheckpointInv, PublishFits, UnitsFit
<1>2. \A v \in Units \ {publish.unit} : unit'[v] = unit[v]
  BY DEF Unpublished, CheckpointInv, Shapes
<1> SUFFICES ASSUME NEW s \in task.held.units \ task.completed
             PROVE  /\ task.at \in 1..Count
                    /\ s \in UnitsOf(root, Steps[task.at]) \cap slipped
                    /\ \/ unit'[s] = "unpublished"
                       \/ \E w \in UnitsOf(root, Steps[task.at]) : w \notin task.held.units
  BY DEF SlipsFit
<1>3. /\ task.at \in 1..Count
      /\ s \in UnitsOf(root, Steps[task.at]) \cap slipped
      /\ unit[s] = "unpublished" \/ \E w \in UnitsOf(root, Steps[task.at]) : w \notin task.held.units
  BY <1>1 DEF CheckpointInv, ExecutionFits, SlipsFit
<1>4. s \in Units
  BY <1>3, UnitsAreUnits
<1> QED
  BY <1>1, <1>2, <1>3, <1>4

\* A checkpoint that is not made costs its unit, and nothing else.
LEMMA UnpublishedKeeps ==
    ASSUME CheckpointInv, publish # Idle, NEW why \in {"unpublished", "lost"}, Unpublished(why),
           UNCHANGED <<job, pointer, onS3, task, root, slipped>>
    PROVE  CheckpointInv'
<1> USE DEF CheckpointInv
<1>1. ManifestsAreLast' /\ ManifestsFit'
  BY ManifestsStay DEF onS3
<1>2. PlacesFit' /\ SettledFits' /\ HeldFits' = HeldFits /\ RootFits' = RootFits
  BY DEF PlacesFit, HeldFits, RootFits, SettledFits, PointerIsLast, onS3, Faithful
<1>3. Shapes'
  BY DEF Shapes, TaskRecord, Unpublished, Idle
<1>4. UnitsFit'
  BY DEF UnitsFit, Unpublished, Shapes, PublishFits
<1>5. PublishFits'
  BY DEF PublishFits, Unpublished, Idle
<1>6. ExecutionFits'
  BY <1>2, SlipsStay DEF ExecutionFits
<1> QED
  BY <1>1, <1>2, <1>3, <1>4, <1>5, <1>6

LEMMA PutObjectKeeps ==
    ASSUME CheckpointInv, NEW f, PutObject(f) PROVE CheckpointInv'
<1> USE DEF CheckpointInv
<1> DEFINE content == publish.files[f]
<1>1. /\ publish # Idle /\ publish.phase = "objects" /\ f \in publish.left
      /\ UNCHANGED <<job, pointer, manifests, archive, task, root, slipped>>
  BY DEF PutObject, Idle
<1>2. CASE Spoilt(f, content)
  <2>1. Unpublished("unpublished") /\ UNCHANGED objects
    BY <1>2 DEF PutObject
  <2> QED
    BY <1>1, <2>1, UnpublishedKeeps DEF onS3
<1>3. CASE ~Spoilt(f, content)
  <2>1. /\ objects' = objects \cup {<<f, content, root[f] = content>>}
        /\ publish' = [publish EXCEPT !.left = publish.left \ {f}]
        /\ UNCHANGED unit
    BY <1>3 DEF PutObject
  <2>2. ManifestsAreLast' /\ ManifestsFit'
    BY <1>1, <2>1, ManifestsStay
  <2>3. PlacesFit' /\ ExecutionFits' /\ SettledFits' /\ UnitsFit'
    BY <1>1, <2>1, ExecutionStays DEF PlacesFit, SettledFits, UnitsFit, Faithful, PointerIsLast
  <2>4. /\ publish'.phase = publish.phase /\ publish'.unit = publish.unit /\ publish'.files = publish.files
        /\ publish'.left = publish.left \ {f} /\ Shapes'
    BY <1>1, <2>1 DEF Shapes, TaskRecord
  <2>5. ASSUME NEW g \in DOMAIN publish.files \ publish'.left
        PROVE  Stored(g, publish.files[g])' \/ Spoilt(g, publish.files[g])'
    <3>1. CASE g = f
      <4>1. <<f, content, root[f] = content>> \in objects'
        BY <2>1
      <4>2. (root[f] = content) = TRUE \/ (root[f] = content) = FALSE
        OBVIOUS
      <4>3. <<f, content, TRUE>> \in objects' \/ <<f, content, FALSE>> \in objects'
        BY <4>1, <4>2
      <4>4. publish'.files[f] = content
        BY <2>4
      <4> QED
        BY <2>4, <3>1, <4>3, <4>4 DEF Stored, Spoilt
    <3>2. CASE g # f
      <4>1. g \in DOMAIN publish.files \ publish.left
        BY <2>4, <3>2
      <4>2. Stored(g, publish.files[g]) \/ Spoilt(g, publish.files[g])
        BY <1>1, <4>1 DEF PublishFits
      <4>3. publish'.files[g] = publish.files[g] /\ objects \subseteq objects'
        BY <2>1, <2>4
      <4> QED
        BY <4>2, <4>3 DEF Stored, Spoilt
    <3> QED
      BY <3>1, <3>2
  <2>6. PublishFits'
    BY <1>1, <2>1, <2>4, <2>5 DEF PublishFits, NewManifest
  <2> QED
    BY <2>2, <2>3, <2>4, <2>6
<1> QED
  BY <1>2, <1>3

\* What a checkpoint that is being published adds to what the task knows.
LEMMA NewManifestFits ==
    ASSUME CheckpointInv, publish # Idle
    PROVE  /\ Continues(NewManifest) /\ NewManifest.seq = task.held.seq + 1
           /\ NewManifest.units = task.completed \cup {publish.unit}
           /\ NewManifest.files = publish.files /\ NewManifest.by = task.id
           /\ publish.unit \in UnitsOf(root, Steps[task.at]) \ task.completed
           /\ task.pc = "execute" /\ task.at \in 1..Count /\ task.at \in 1..(Count + 1)
           /\ DoneBefore(publish.files, task.at, NewManifest.units)
<1> USE DEF CheckpointInv
<1> DEFINE at == task.at
           U == task.completed
           u == publish.unit
           F == publish.files
<1>1. /\ task.pc = "execute" /\ at \in 1..Count /\ u \in UnitsOf(root, Steps[at]) \ U
      /\ Agree(F, root, U \cup {u}) /\ DOMAIN F \subseteq DOMAIN root
  BY DEF PublishFits, UnitsFit
<1>2. /\ at \in 1..(Count + 1) /\ DoneBefore(root, at, U)
      /\ DOMAIN root \subseteq U \cup UnitsOf(root, Steps[at])
  BY <1>1, StepsFacts DEF ExecutionFits, RootFits
<1>3. /\ NewManifest.units = U \cup {u} /\ NewManifest.seq = task.held.seq + 1
      /\ NewManifest.files = F /\ NewManifest.by = task.id
  BY DEF NewManifest
<1> HIDE DEF at, U, u, F
<1>4. Agree(root, F, U) /\ U \cup {u} \subseteq DOMAIN F
  BY <1>1 DEF Agree
<1>5. DoneBefore(F, at, U) /\ UnitsOf(F, Steps[at]) = UnitsOf(root, Steps[at])
  BY <1>1, <1>2, <1>4, FansStay, StepsFacts
<1>6. DoneBefore(F, at, U \cup {u})
  BY <1>5 DEF DoneBefore, StepDone
<1>7. Continues(NewManifest)
  <2>1. u \in UnitsOf(F, Steps[at]) /\ DOMAIN F \subseteq (U \cup {u}) \cup UnitsOf(F, Steps[at])
    BY <1>1, <1>2, <1>5
  <2> QED
    BY <1>1, <1>3, <1>4, <1>6, <2>1 DEF Continues
<1> QED
  BY <1>1, <1>2, <1>3, <1>6, <1>7 DEF at, U, u, F

\* The step at work is the one the pointer leaves open, or one before it is.
LEMMA OpenIsBehind ==
    ASSUME CheckpointInv, publish # Idle, pointer = task.held
    PROVE  Open(pointer.files, pointer.units) <= task.at
<1> USE DEF CheckpointInv
<1> DEFINE at == task.at
           U == task.completed
           u == publish.unit
           open == Open(pointer.files, pointer.units)
<1>1. /\ task.pc = "execute" /\ at \in 1..Count /\ at \in 1..(Count + 1)
      /\ u \in UnitsOf(root, Steps[at]) \ U
  BY NewManifestFits
<1>2. /\ DoneBefore(root, at, U) /\ Agree(root, pointer.files, U) /\ HeldFits /\ SlipsFit
  BY <1>1 DEF ExecutionFits, RootFits
<1>3. unit[u] = "returned"
  BY DEF PublishFits
<1>4. \E w \in UnitsOf(root, Steps[at]) : w \notin pointer.units
  BY <1>1, <1>2, <1>3 DEF SlipsFit
<1>5. UnitsOf(pointer.files, Steps[at]) = UnitsOf(root, Steps[at])
  <2>1. at <= at
    BY <1>1, StepsFacts
  <2> HIDE DEF at, U
  <2> QED
    BY <1>1, <1>2, <2>1, FansStay
<1>6. ~StepDone(pointer.files, at, pointer.units)
  BY <1>4, <1>5 DEF StepDone
<1>7. open \in 1..(Count + 1) /\ DoneBefore(pointer.files, open, pointer.units)
  BY OpenFacts
<1> HIDE DEF open, at
<1>8. ~(at < open)
  BY <1>1, <1>6, <1>7 DEF DoneBefore
<1>9. open <= at
  BY <1>1, <1>7, <1>8, StepsFacts
<1> QED
  BY <1>9 DEF open, at

\* So what is published on top of the pointer succeeds it.
LEMMA NewManifestSucceeds ==
    ASSUME CheckpointInv, publish # Idle, pointer = task.held
    PROVE  Succeeds(NewManifest)
<1> USE DEF CheckpointInv
<1> DEFINE open == Open(pointer.files, pointer.units)
           U == NewManifest.units
<1>1. /\ task.pc = "execute" /\ NewManifest.files = publish.files /\ task.at \in 1..Count
      /\ U = task.completed \cup {publish.unit} /\ DoneBefore(publish.files, task.at, U)
  BY NewManifestFits
<1>2. open <= task.at /\ open \in 1..(Count + 1)
  BY OpenIsBehind, OpenFacts
<1>3. pointer.units \ U \subseteq slipped
  BY <1>1 DEF ExecutionFits, SlipsFit
<1>4. NewManifest.parent = pointer.units
  BY DEF NewManifest
<1> HIDE DEF open, U
<1>5. DoneBefore(publish.files, open, U)
  <2> SUFFICES ASSUME NEW i \in 1..Count, i < open PROVE StepDone(publish.files, i, U)
    BY DEF DoneBefore
  <2>1. i < task.at
    BY <1>1, <1>2, StepsFacts
  <2> QED
    BY <1>1, <2>1 DEF DoneBefore
<1> QED
  BY <1>1, <1>3, <1>4, <1>5 DEF Succeeds, open, U

LEMMA PutManifestKeeps ==
    ASSUME CheckpointInv, PutManifest PROVE CheckpointInv'
<1> USE DEF CheckpointInv
<1>1. /\ publish # Idle /\ publish.phase = "objects" /\ publish.left = {}
      /\ manifests' = manifests \cup {NewManifest} /\ publish' = [publish EXCEPT !.phase = "manifest"]
      /\ UNCHANGED <<job, pointer, objects, archive, task, unit, root, slipped>>
  BY DEF PutManifest, Idle
<1> DEFINE m == NewManifest
<1>2. /\ Continues(m) /\ m.seq = task.held.seq + 1 /\ m.files = publish.files /\ m.by = task.id
      /\ task.pc = "execute" /\ task.at \in 1..Count
  BY <1>1, NewManifestFits
<1>3. /\ publish'.phase = "manifest" /\ publish'.unit = publish.unit /\ publish'.files = publish.files
      /\ publish'.left = publish.left /\ Shapes' /\ NewManifest' = m
  BY <1>1 DEF Shapes, TaskRecord, NewManifest
<1>4. m \in manifests'
  BY <1>1
<1>5. /\ task.held.seq \in Nat /\ pointer.seq \in Nat
      /\ pointer = task.held \/ pointer.seq = task.held.seq + 1
  BY <1>2 DEF ExecutionFits, HeldFits, ManifestsFit
<1>6. pointer = task.held => Succeeds(m)
  BY <1>1, NewManifestSucceeds
<1> HIDE DEF m
<1>7. m.seq \in Nat /\ m.seq <= pointer.seq + 1 /\ (m.seq = pointer.seq + 1 => Succeeds(m))
  BY <1>2, <1>5, <1>6
<1>8. ManifestsAreLast'
  <2>1. \A f \in DOMAIN m.files : Stored(f, m.files[f]) \/ Spoilt(f, m.files[f])
    BY <1>1, <1>2 DEF PublishFits
  <2> QED
    BY <1>1, <2>1 DEF ManifestsAreLast, Stored, Spoilt, m
<1>9. ManifestsFit'
  <2>1. manifests' = manifests \cup {m} /\ UNCHANGED <<pointer, slipped>>
    BY <1>1 DEF m
  <2> QED
    BY <1>2, <1>7, <2>1 DEF ManifestsFit, Succeeds
<1>10. PlacesFit' /\ SettledFits'
  <2>1. manifests' = manifests \cup {m} /\ UNCHANGED <<pointer, job, task>>
    BY <1>1 DEF m
  <2> QED
    BY <1>2, <2>1 DEF PlacesFit, SettledFits
<1>11. ExecutionFits' /\ UnitsFit'
  <2>1. task.at # Count + 1
    BY <1>2, StepsFacts
  <2> QED
    BY <1>1, <2>1 DEF ExecutionFits, HeldFits, SlipsFit, RootFits, UnitsFit
<1>12. PublishFits'
  <2>1. /\ publish.unit \in Units /\ unit[publish.unit] = "returned"
        /\ Agree(publish.files, root, task.completed \cup {publish.unit})
        /\ DOMAIN publish.files \subseteq DOMAIN root
        /\ \A f \in DOMAIN publish.files \ publish.left :
              Stored(f, publish.files[f]) \/ Spoilt(f, publish.files[f])
    BY <1>1 DEF PublishFits
  <2>2. UNCHANGED <<objects, root, task, unit>>
    BY <1>1
  <2> QED
    BY <1>3, <1>4, <2>1, <2>2 DEF PublishFits, Stored, Spoilt
<1> QED
  BY <1>3, <1>8, <1>9, <1>10, <1>11, <1>12

\* The pointer moves on to the new manifest.
LEMMA PointerMoves ==
    ASSUME CheckpointInv, publish.phase = "manifest", AsExpected, pointer' = NewManifest,
           UNCHANGED <<job, onS3, root>>
    PROVE  /\ ManifestsAreLast' /\ ManifestsFit' /\ SettledFits' /\ PointerIsLast'
           /\ pointer = task.held /\ pointer'.seq = task.held.seq + 1 /\ pointer'.seq \in Nat
           /\ pointer'.units = task.completed \cup {publish.unit}
           /\ Agree(root, pointer'.files, task.completed \cup {publish.unit})
<1> USE DEF CheckpointInv
<1> DEFINE n == NewManifest
<1>1. publish # Idle /\ n \in manifests
  BY DEF PublishFits, Idle
<1>2. /\ n.seq = task.held.seq + 1 /\ n.units = task.completed \cup {publish.unit}
      /\ n.files = publish.files /\ task.pc = "execute"
  BY <1>1, NewManifestFits
<1>3. pointer.seq \in Nat /\ task.held.seq \in Nat /\ pointer = task.held
  BY <1>2 DEF ExecutionFits, HeldFits, ManifestsFit, AsExpected
<1>4. Agree(root, publish.files, task.completed \cup {publish.unit})
  BY <1>1 DEF PublishFits, Agree
<1> HIDE DEF n
<1>5. ManifestsAreLast'
  BY DEF ManifestsAreLast, Stored, Spoilt, onS3
<1>6. n.seq \in Nat /\ \A m \in manifests : m.seq <= n.seq /\ m.seq <= n.seq + 1 /\ m.seq # n.seq + 1
  BY <1>2, <1>3 DEF ManifestsFit
<1>7. ManifestsFit' /\ PointerIsLast'
  BY <1>1, <1>6 DEF ManifestsFit, PointerIsLast, onS3, n
<1>8. SettledFits'
  BY <1>2 DEF SettledFits, PlacesFit
<1> QED
  BY <1>2, <1>3, <1>4, <1>5, <1>6, <1>7, <1>8 DEF n

\* It moves, and the executor counts the unit.
LEMMA CountedKeeps ==
    ASSUME CheckpointInv, publish.phase = "manifest", AsExpected, pointer' = NewManifest,
           task' = [task EXCEPT !.held = NewManifest, !.completed = NewManifest.units,
                                !.at = Open(root, NewManifest.units)],
           unit' = [unit EXCEPT ![publish.unit] = "done"],
           publish' = Idle, UNCHANGED <<job, onS3, root>>
    PROVE  CheckpointInv'
<1> USE DEF CheckpointInv
<1> DEFINE at == task.at
           U == task.completed
           u == publish.unit
           N == U \cup {u}
           open == Open(root, N)
<1>0. publish # Idle
  BY DEF Idle
<1>1. /\ task.pc = "execute" /\ at \in 1..Count /\ at \in 1..(Count + 1)
      /\ u \in UnitsOf(root, Steps[at]) \ U /\ NewManifest.units = N
  BY <1>0, NewManifestFits
<1>2. DoneBefore(root, at, U) /\ DOMAIN root \subseteq U \cup UnitsOf(root, Steps[at])
  BY <1>1 DEF ExecutionFits, RootFits
<1>3. /\ ManifestsAreLast' /\ ManifestsFit' /\ SettledFits' /\ PointerIsLast'
      /\ pointer'.seq \in Nat /\ pointer'.units = N /\ Agree(root, pointer'.files, N)
  BY PointerMoves
<1>4. /\ task'.pc = "execute" /\ task'.held = pointer' /\ task'.completed = N
      /\ task'.at = open /\ task'.id = task.id /\ Shapes'
  BY <1>1 DEF Shapes, TaskRecord, Idle
<1>5. PlacesFit'
  BY <1>1, <1>3, <1>4 DEF PlacesFit, PointerIsLast
<1>6. DoneBefore(root, at, N)
  BY <1>2 DEF DoneBefore, StepDone
<1>7. /\ open \in 1..(Count + 1) /\ DoneBefore(root, open, N)
      /\ open \in 1..Count => ~StepDone(root, open, N)
      /\ ~StepDone(root, at, N) => open = at
      /\ open # at => UnitsOf(root, Steps[at]) \subseteq N
  BY <1>1, <1>6, OpenFacts, OpenAfter
<1>8. \A v \in Units : unit'[v] \notin {"todo", "done"} => v # u /\ v \in UnitsOf(root, Steps[at]) \ U
  BY DEF UnitsFit, Shapes
<1> HIDE DEF open
<1>9. ExecutionFits'
  <2>1. DOMAIN root \subseteq N \cup (IF open \in 1..Count THEN UnitsOf(root, Steps[open]) ELSE {})
    BY <1>1, <1>2, <1>7
  <2>2. HeldFits'
    BY <1>3, <1>4 DEF HeldFits
  <2>3. SlipsFit'
    BY <1>3, <1>4 DEF SlipsFit
  <2>4. RootFits'
    BY <1>3, <1>4, <1>7, <2>1 DEF RootFits
  <2> QED
    BY <2>2, <2>3, <2>4 DEF ExecutionFits
<1>10. UnitsFit'
  <2> SUFFICES ASSUME NEW v \in Units, unit'[v] \notin {"todo", "done"}
               PROVE  open \in 1..Count /\ v \in UnitsOf(root, Steps[open]) \ N
    BY <1>4 DEF UnitsFit
  <2>1. v \in UnitsOf(root, Steps[at]) \ N
    BY <1>8
  <2>2. ~StepDone(root, at, N)
    BY <2>1 DEF StepDone
  <2> QED
    BY <1>1, <1>7, <2>1, <2>2
<1>11. PublishFits'
  BY DEF PublishFits, Idle
<1> QED
  BY <1>3, <1>4, <1>5, <1>9, <1>10, <1>11

\* It moves, and the executor does not count the unit, whether or not the task knows.
LEMMA UncountedKeeps ==
    ASSUME CheckpointInv, publish.phase = "manifest", AsExpected, pointer' = NewManifest,
           Unpublished("unpublished"), UNCHANGED <<job, onS3, root>>,
           \/ UNCHANGED <<task, slipped>>
           \/ /\ task' = [task EXCEPT !.held = NewManifest]
              /\ slipped' = slipped \cup {publish.unit}
    PROVE  CheckpointInv'
<1> USE DEF CheckpointInv
<1> DEFINE at == task.at
           U == task.completed
           u == publish.unit
<1>0. publish # Idle
  BY DEF Idle
<1>1. /\ task.pc = "execute" /\ at \in 1..Count /\ at # Count + 1 /\ u \in UnitsOf(root, Steps[at]) \ U
      /\ NewManifest.units = U \cup {u}
  BY <1>0, NewManifestFits, StepsFacts
<1>2. /\ ManifestsAreLast' /\ ManifestsFit' /\ SettledFits' /\ PointerIsLast'
      /\ pointer'.seq = task.held.seq + 1 /\ pointer'.seq \in Nat /\ pointer'.units = U \cup {u}
      /\ Agree(root, pointer'.files, U \cup {u})
  BY PointerMoves
<1>3. HeldFits /\ SlipsFit /\ RootFits
  BY <1>1 DEF ExecutionFits
<1>4. /\ task'.pc = "execute" /\ task'.at = at /\ task'.completed = U /\ task'.id = task.id
      /\ task'.held = task.held \/ task'.held = pointer'
      /\ Shapes' /\ publish' = Idle
  BY <1>1 DEF Shapes, TaskRecord, Unpublished, Idle
<1>5. PlacesFit'
  BY <1>1, <1>2, <1>4 DEF PlacesFit, PointerIsLast
<1>6. UnitsFit'
  BY <1>0, <1>4 DEF UnitsFit, Unpublished, Shapes, PublishFits
<1>7. PublishFits'
  BY <1>4 DEF PublishFits, Idle
<1>8. HeldFits'
  BY <1>1, <1>2, <1>3, <1>4 DEF HeldFits
<1>9. RootFits'
  BY <1>2, <1>3, <1>4 DEF RootFits, Agree
<1>10. SlipsFit'
  <2>1. CASE UNCHANGED <<task, slipped>>
    BY <1>0, <2>1, SlipsStay
  <2>2. CASE task' = [task EXCEPT !.held = NewManifest] /\ slipped' = slipped \cup {publish.unit}
    <3>1. task'.held.units \ U = {u}
      BY <1>1, <2>2 DEF Shapes, TaskRecord
    <3>2. u \in Units /\ unit'[u] = "unpublished"
      BY <1>0 DEF Unpublished, Shapes, PublishFits
    <3> QED
      BY <1>1, <1>4, <2>2, <3>1, <3>2 DEF SlipsFit
  <2> QED
    BY <2>1, <2>2
<1> QED
  BY <1>2, <1>4, <1>5, <1>6, <1>7, <1>8, <1>9, <1>10 DEF ExecutionFits

LEMMA CommitPointerKeeps ==
    ASSUME CheckpointInv, CommitPointer PROVE CheckpointInv'
<1>1. publish.phase = "manifest" /\ publish # Idle /\ UNCHANGED <<job, onS3, root>>
  BY DEF CommitPointer, Idle
<1>2. CASE ~AsExpected /\ Unpublished("lost") /\ UNCHANGED <<pointer, task, slipped>>
  BY <1>1, <1>2, UnpublishedKeeps
<1> QED
  BY <1>1, <1>2, CountedKeeps, UncountedKeeps DEF CommitPointer

LEMMA PublishFailsKeeps ==
    ASSUME CheckpointInv, PublishFails PROVE CheckpointInv'
BY UnpublishedKeeps DEF PublishFails

-----------------------------------------------------------------------------
(* The end of a step, the settlement, the archive.                         *)

NoneAtWork == \A u \in Units : unit[u] \notin {"running", "returned"}

LEMMA RaisesRest ==
    ASSUME CheckpointInv, NEW why, Raises(why) PROVE NoneAtWork
BY DEF CheckpointInv, UnitsFit, Raises, Raised, NoneAtWork

LEMMA RetrySectionsKeeps ==
    ASSUME CheckpointInv, RetrySections PROVE CheckpointInv'
<1> USE DEF CheckpointInv
<1>1. /\ NoneAtWork /\ UNCHANGED <<job, pointer, onS3, root, publish, slipped>>
      /\ task' = [task EXCEPT !.retried = TRUE]
      /\ unit' = [u \in Units |-> IF unit[u] \in Raised THEN "todo" ELSE unit[u]]
  BY RaisesRest DEF RetrySections
<1>2. publish = Idle /\ \A u \in Units : unit'[u] \in {"todo", "done"}
  <2>1. \A u \in Units : unit[u] \in {"todo", "done"} \cup Raised
    BY DEF RetrySections, Raises, UnitsFit
  <2> QED
    BY <1>1, <2>1 DEF NoneAtWork, PublishFits, Raised
<1>3. /\ task'.id = task.id /\ task'.pc = task.pc /\ task'.held = task.held
      /\ task'.completed = task.completed /\ task'.at = task.at /\ Shapes'
  BY <1>1 DEF Shapes, TaskRecord
<1>4. ManifestsAreLast' /\ ManifestsFit'
  BY <1>1, ManifestsStay DEF onS3
<1>5. PlacesFit' /\ SettledFits' /\ HeldFits' = HeldFits /\ RootFits' = RootFits
  BY <1>1, <1>3 DEF PlacesFit, HeldFits, RootFits, SettledFits, Faithful, PointerIsLast, onS3
<1>6. UnitsFit' /\ PublishFits'
  BY <1>1, <1>2 DEF UnitsFit, PublishFits, Idle
\* What has failed has not slipped, and leaves the step open.
<1>7. SlipsFit'
  <2>1. task.pc = "execute" /\ \E u \in Units : unit[u] \in {"failed", "cancelled"}
    BY DEF RetrySections, Raises
  <2>2. PICK u \in Units : unit[u] \in {"failed", "cancelled"}
    BY <2>1
  <2>3. u \in UnitsOf(root, Steps[task.at]) \ task.completed /\ SlipsFit
    BY <2>1, <2>2 DEF UnitsFit, ExecutionFits
  <2>4. u \in task.held.units => \E w \in UnitsOf(root, Steps[task.at]) : w \notin task.held.units
    BY <2>2, <2>3 DEF SlipsFit
  <2> QED
    BY <1>1, <1>3, <2>3, <2>4 DEF SlipsFit
<1> QED
  BY <1>3, <1>4, <1>5, <1>6, <1>7 DEF ExecutionFits

LEMMA SettleKeeps ==
    ASSUME CheckpointInv, task.pc = "execute", NoneAtWork, NEW outcome, NEW charged, Settle(outcome, charged),
           outcome = "succeeded" =>
              /\ Complete(pointer) /\ PointerIsLast /\ Faithful(root)
              /\ charged => \A u \in DOMAIN pointer.files :
                    u[1] \in Shards \cup {"reference_seeds"} => pointer.files[u][2] # "failed"
    PROVE  CheckpointInv'
<1> USE DEF CheckpointInv
<1>1. /\ job'.status = "archiving" /\ job'.outcome = outcome /\ job'.charged = charged
      /\ task'.pc = "archive" /\ task'.id = task.id /\ publish = Idle
      /\ UNCHANGED <<pointer, onS3, root, publish, slipped>>
      /\ \A u \in Units : unit'[u] = "todo"
  BY DEF Settle, Shapes, NoTask, PublishFits, NoneAtWork
<1>2. Shapes'
  BY DEF Settle, Shapes, TaskRecord, NoTask
<1>3. ManifestsAreLast' /\ ManifestsFit'
  BY <1>1, ManifestsStay DEF onS3
<1>4. PlacesFit' /\ ExecutionFits' /\ UnitsFit' /\ PublishFits'
  BY <1>1 DEF PlacesFit, ExecutionFits, UnitsFit, PublishFits, Idle, onS3
<1>5. SettledFits'
  BY <1>1 DEF SettledFits, Faithful, PointerIsLast, onS3
<1> QED
  BY <1>2, <1>3, <1>4, <1>5

LEMMA SettleFailedKeeps ==
    ASSUME CheckpointInv, RejectPlan \/ SettleFailed \/ SettleCancelled PROVE CheckpointInv'
<1>1. CASE RejectPlan
  <2>1. UnitsOf(root, Steps[task.at]) = {} /\ task.pc = "execute" /\ Settle("failed", FALSE)
    BY <1>1, NoItems DEF RejectPlan
  <2>2. NoneAtWork
    BY <2>1 DEF CheckpointInv, UnitsFit, NoneAtWork
  <2> QED
    BY <2>1, <2>2, SettleKeeps
<1>2. CASE SettleFailed
  BY <1>2, RaisesRest, SettleKeeps DEF SettleFailed, Raises
<1>3. CASE SettleCancelled
  BY <1>3, RaisesRest, SettleKeeps DEF SettleCancelled, Raises
<1> QED
  BY <1>1, <1>2, <1>3

LEMMA StopUnsettledKeeps ==
    ASSUME CheckpointInv, StopUnsettled PROVE CheckpointInv'
BY EndsKeeps DEF StopUnsettled, Raises

\* Behind the last step the task knows the pointer, and it is complete.
LEMMA SettleCompletedKeeps ==
    ASSUME CheckpointInv, SettleCompleted PROVE CheckpointInv'
<1> USE DEF CheckpointInv
<1>1. task.pc = "execute" /\ task.at = Count + 1 /\ task.at \notin 1..Count /\ Count + 1 \in 1..(Count + 1)
  BY StepsFacts DEF SettleCompleted, ExecutionFits, RootFits, Count
<1>2. NoneAtWork
  BY <1>1 DEF UnitsFit, NoneAtWork
<1>3. /\ pointer.units = task.completed /\ DOMAIN root \subseteq pointer.units
      /\ Agree(root, pointer.files, pointer.units) /\ DoneBefore(root, Count + 1, pointer.units)
  BY <1>1 DEF ExecutionFits, HeldFits, SlipsFit, RootFits
<1>4. DoneBefore(pointer.files, Count + 1, pointer.units)
  BY <1>1, <1>3, FansStay
<1>5. DOMAIN pointer.files \subseteq pointer.units
  <2> DEFINE open == Open(pointer.files, pointer.units)
  <2>1. /\ open \in 1..(Count + 1)
        /\ open \in 1..Count => ~StepDone(pointer.files, open, pointer.units)
        /\ DOMAIN pointer.files \subseteq pointer.units
              \cup (IF open \in 1..Count THEN UnitsOf(pointer.files, Steps[open]) ELSE {})
    BY OpenFacts, PointerFiles
  <2> HIDE DEF open
  <2>2. open \notin 1..Count
    BY <1>4, <2>1, StepsFacts DEF DoneBefore
  <2> QED
    BY <2>1, <2>2
<1>6. Complete(pointer) /\ PointerIsLast /\ Faithful(root)
  BY <1>1, <1>3, <1>4, <1>5 DEF Complete, Faithful, ExecutionFits, HeldFits
<1>7. CASE Settle("failed", FALSE)
  BY <1>1, <1>2, <1>7, SettleKeeps
<1>8. ASSUME NEW low \in BOOLEAN, Settle("succeeded", ~Degraded(low))
      PROVE  CheckpointInv'
  <2>1. ~Degraded(low) => \A u \in DOMAIN pointer.files :
             u[1] \in Shards \cup {"reference_seeds"} => pointer.files[u][2] # "failed"
    <3>1. \A u \in DOMAIN pointer.files : u \in DOMAIN root /\ root[u] = pointer.files[u]
      BY <1>3, <1>5 DEF Agree
    <3> QED
      BY <3>1 DEF Degraded, Says
  <2> QED
    BY <1>1, <1>2, <1>6, <1>8, <2>1, SettleKeeps
<1> QED
  BY <1>7, <1>8 DEF SettleCompleted

LEMMA UploadArchiveKeeps ==
    ASSUME CheckpointInv, UploadArchive PROVE CheckpointInv'
<1> USE DEF CheckpointInv
<1>1. /\ task.pc = "archive" /\ task'.pc = "uploaded" /\ archive' = root
      /\ UNCHANGED <<job, pointer, manifests, objects, unit, root, publish, slipped>> /\ Shapes'
      /\ task'.id = task.id /\ publish = Idle /\ NoneAtWork
  BY DEF UploadArchive, Shapes, TaskRecord, UnitsFit, PublishFits, NoneAtWork
<1>2. ManifestsAreLast' /\ ManifestsFit'
  BY <1>1, ManifestsStay
<1>3. PlacesFit' /\ ExecutionFits' /\ UnitsFit' /\ PublishFits'
  BY <1>1 DEF PlacesFit, ExecutionFits, UnitsFit, PublishFits, Idle, NoneAtWork
<1>4. SettledFits'
  BY <1>1 DEF SettledFits, Faithful, PlacesFit, PointerIsLast
<1> QED
  BY <1>1, <1>2, <1>3, <1>4

LEMMA FinishArchiveKeeps ==
    ASSUME CheckpointInv, FinishArchive PROVE CheckpointInv'
BY EndsKeeps DEF FinishArchive

LEMMA CheckpointInductive ==
    /\ Init => CheckpointInv
    /\ CheckpointInv /\ [Next]_vars => CheckpointInv'
<1>1. Init => CheckpointInv
  <2> SUFFICES ASSUME Init PROVE CheckpointInv
    OBVIOUS
  <2>1. Shapes
    BY DEF Init, Shapes, TaskRecord, NoTask, Idle
  <2>2. ManifestsAreLast /\ ManifestsFit /\ PlacesFit
    BY DEF Init, ManifestsAreLast, ManifestsFit, PlacesFit, NoTask, NoManifest
  <2>3. ExecutionFits /\ UnitsFit /\ PublishFits /\ SettledFits
    BY DEF Init, ExecutionFits, UnitsFit, PublishFits, SettledFits, NoTask, Idle
  <2> QED
    BY <2>1, <2>2, <2>3 DEF CheckpointInv
<1>2. ASSUME CheckpointInv, Next PROVE CheckpointInv'
  <2>1. CASE Claim \/ FindSuccessor \/ Restore
    BY <1>2, <2>1, ClaimKeeps, FindSuccessorKeeps, RestoreKeeps
  <2>2. CASE Crash
    BY <1>2, <2>2, EndsKeeps DEF Crash
  <2>3. CASE StartUnit
    BY <1>2, <2>3, StartUnitKeeps
  <2>4. ASSUME NEW u \in Units, WriteFile(u) \/ UnitEnds(u) \/ HashFiles(u) \/ PutObject(u)
        PROVE  CheckpointInv'
    BY <1>2, <2>4, WriteFileKeeps, UnitEndsKeeps, HashFilesKeeps, PutObjectKeeps
  <2>5. CASE PutManifest \/ CommitPointer \/ PublishFails
    BY <1>2, <2>5, PutManifestKeeps, CommitPointerKeeps, PublishFailsKeeps
  <2>6. CASE RetrySections \/ StopUnsettled
    BY <1>2, <2>6, RetrySectionsKeeps, StopUnsettledKeeps
  <2>7. CASE RejectPlan \/ SettleFailed \/ SettleCancelled
    BY <1>2, <2>7, SettleFailedKeeps
  <2>8. CASE SettleCompleted \/ UploadArchive \/ FinishArchive
    BY <1>2, <2>8, SettleCompletedKeeps, UploadArchiveKeeps, FinishArchiveKeeps
  <2> QED
    BY <1>2, <2>1, <2>2, <2>3, <2>4, <2>5, <2>6, <2>7, <2>8 DEF Next
<1>3. ASSUME CheckpointInv, UNCHANGED vars PROVE CheckpointInv'
  <2>1. UNCHANGED <<job, pointer, manifests, objects, archive, task, unit, root, publish, slipped>>
    BY <1>3 DEF vars, onS3
  <2>2. ManifestsAreLast' /\ ManifestsFit'
    BY <1>3, <2>1, ManifestsStay
  <2>3. Shapes' /\ PlacesFit' /\ ExecutionFits' /\ UnitsFit'
    BY <1>3, <2>1, ExecutionStays DEF CheckpointInv, Shapes, TaskRecord, PlacesFit, PointerIsLast, UnitsFit
  <2>4. PublishFits' /\ SettledFits'
    BY <1>3, <2>1 DEF CheckpointInv, PublishFits, SettledFits, Faithful, PointerIsLast, NewManifest, Stored, Spoilt
  <2> QED
    BY <2>2, <2>3, <2>4 DEF CheckpointInv
<1> QED
  BY <1>1, <1>2, <1>3

LEMMA AlwaysCheckpointed == Spec => []CheckpointInv
BY CheckpointInductive, PTL DEF Spec

-----------------------------------------------------------------------------
(* What the checkpoints promise.                                           *)

\* No unit runs before every unit of every earlier stage is in the committed checkpoint, and
\* a manifest comes after its objects, for any workflow and any plans (durable_workflow.py,
\* checkpoints.py).
THEOREM StagesStayDurable == Spec => []StagesAreDurable
<1>1. ASSUME CheckpointInv, NEW u \in Units, unit[u] \in {"running", "returned"},
             NEW i \in 1..(Place(u[1]) - 1)
      PROVE  UnitsOf(root, Steps[i]) \subseteq pointer.units
  <2>1. task.pc = "execute" /\ task.at \in 1..Count /\ u \in UnitsOf(root, Steps[task.at])
    BY <1>1 DEF CheckpointInv, UnitsFit
  <2>2. Place(u[1]) = task.at
    BY <2>1, UnitsAreUnits, StepsFacts
  <2>3. i \in 1..Count /\ i < task.at
    BY <1>1, <2>1, <2>2, StepsFacts
  <2> QED
    BY <1>1, <2>1, <2>3 DEF CheckpointInv, ExecutionFits, HeldFits, RootFits, DoneBefore, StepDone
<1>2. CheckpointInv => StagesAreDurable
  BY <1>1 DEF StagesAreDurable, CheckpointInv
<1> QED
  BY <1>2, AlwaysCheckpointed, PTL

\* A unit that an earlier task has published on top of the committed checkpoint never runs
\* again, whether or not that task lived to commit it (find_successor_manifest).
THEOREM NothingIsReplayed == Spec => []PublishedIsNotReplayed
<1>1. CheckpointInv => PublishedIsNotReplayed
  BY DEF CheckpointInv, UnitsFit, PlacesFit, PublishedIsNotReplayed
<1> QED
  BY <1>1, AlwaysCheckpointed, PTL

\* A Survey that is finished as a success has delivered every card, section and the report its
\* plans name, as they were checkpointed, and is charged only when none of its shards failed,
\* however many tasks it took (resumable_runner.py, one_shot.py).
THEOREM DeliveriesAreComplete == Spec => []DeliveredIsComplete
<1>1. ASSUME CheckpointInv, job.status = "finished", job.outcome = "succeeded"
      PROVE  /\ \A step \in {"paper_cards", "sections", "final_markdown"} :
                   \A u \in UnitsOf(archive, step) : /\ u \in pointer.units \cap DOMAIN archive
                                                     /\ archive[u] = pointer.files[u]
             /\ job.charged => \A u \in DOMAIN archive :
                   u[1] \in Shards \cup {"reference_seeds"} => archive[u][2] # "failed"
  <2>1. /\ Agree(archive, pointer.files, pointer.units) /\ DOMAIN archive \subseteq pointer.units
        /\ DoneBefore(pointer.files, Count + 1, pointer.units)
        /\ job.charged => \A u \in DOMAIN pointer.files :
              u[1] \in Shards \cup {"reference_seeds"} => pointer.files[u][2] # "failed"
    BY <1>1 DEF CheckpointInv, SettledFits, Faithful, Complete
  <2>2. ASSUME NEW step \in {"paper_cards", "sections", "final_markdown"}, NEW u \in UnitsOf(archive, step)
        PROVE  u \in pointer.units
    <3>1. step \in ToSet(Steps)
      BY UnitConstants
    <3>2. PICK i \in 1..Count : Steps[i] = step
      BY <3>1, StepsFacts DEF ToSet
    <3>3. Agree(pointer.files, archive, pointer.units)
      BY <2>1 DEF Agree
    <3>4. Count + 1 \in 1..(Count + 1) /\ i <= Count + 1 /\ i < Count + 1
      BY StepsFacts
    <3>5. UnitsOf(archive, Steps[i]) = UnitsOf(pointer.files, Steps[i])
      BY <2>1, <3>3, <3>4, FansStay
    <3> QED
      BY <2>1, <2>2, <3>2, <3>4, <3>5 DEF DoneBefore, StepDone
  <2> QED
    BY <2>1, <2>2 DEF Agree
<1>2. CheckpointInv => DeliveredIsComplete
  BY <1>1 DEF DeliveredIsComplete
<1> QED
  BY <1>2, AlwaysCheckpointed, PTL

\* The committed checkpoint never falls back to an earlier step, and loses no unit but one whose
\* progress could not be written, neither to a commit nor to a task that finds what another has
\* left behind (resumable_runner.py, durable_workflow.py, one_shot.py).
THEOREM ProgressStays == Spec => ProgressIsKept
<1> DEFINE open == Open(pointer.files, pointer.units)
           Kept(m) == open <= Open(m.files, m.units) /\ pointer.units \ m.units \subseteq slipped
<1>1. ASSUME NEW m, Succeeds(m) PROVE Kept(m)
  <2>1. DoneBefore(m.files, open, m.units) /\ open \in 1..(Count + 1)
    BY <1>1, OpenFacts DEF Succeeds
  <2> QED
    BY <1>1, <2>1, OpenBehind DEF Succeeds
<1> HIDE DEF Kept
<1>2. ASSUME CheckpointInv, [Next]_vars, pointer' # pointer PROVE Kept(pointer')
  <2>1. CASE FindSuccessor
    <3>1. PICK m \in Successors(task.held) : pointer' = m
      BY <1>2, <2>1 DEF FindSuccessor
    <3>2. Succeeds(m)
      BY <1>2, <2>1, <3>1 DEF FindSuccessor, Successors, CheckpointInv, PlacesFit, ManifestsFit
    <3> QED
      BY <1>1, <3>1, <3>2
  <2>2. CASE CommitPointer
    <3>1. pointer' = NewManifest /\ AsExpected /\ publish.phase = "manifest" /\ publish # Idle
          /\ UNCHANGED <<job, onS3, root>>
      BY <1>2, <2>2 DEF CommitPointer, Idle
    <3>2. pointer = task.held
      BY <1>2, <3>1, PointerMoves
    <3> QED
      BY <1>1, <1>2, <3>1, <3>2, NewManifestSucceeds
  <2>3. CASE ~FindSuccessor /\ ~CommitPointer
    BY <1>2, <2>3 DEF Next, vars, Claim, Restore, Crash, StartUnit, WriteFile, UnitEnds, HashFiles, PutObject,
       PutManifest, PublishFails, RetrySections, RejectPlan, SettleFailed, SettleCancelled, StopUnsettled,
       SettleCompleted, Settle, UploadArchive, FinishArchive
  <2> QED
    BY <2>1, <2>2, <2>3
<1>3. CheckpointInv /\ [Next]_vars =>
         [pointer' # pointer =>
            /\ Open(pointer.files, pointer.units) <= Open(pointer'.files, pointer'.units)
            /\ pointer.units \ pointer'.units \subseteq slipped]_vars
  BY <1>2 DEF Kept
<1> QED
  BY <1>3, AlwaysCheckpointed, PTL DEF Spec, ProgressIsKept

=============================================================================
