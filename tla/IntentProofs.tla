---------------------------- MODULE IntentProofs -----------------------------
(****************************************************************************)
(* What holds of the intent of a run whatever its settings, its schedule    *)
(* and the number of operators.  Two promises are proved: what a cycle      *)
(* works under is on record, and naming a version keeps an operator from    *)
(* overwriting what nobody showed them.  Both rest on versions that only    *)
(* grow: what has been read, recorded or applied bears a version up to the  *)
(* present one, and the same version means the same settings.               *)
(****************************************************************************)
EXTENDS IntentControl, FiniteSetTheorems, WellFoundedInduction, TLAPS

Requests == [patch : Partial, expected : Int, seen : Settings]

\* What the processes keep to themselves has its type, and what is about to be
\* put in force or on record is usable.
LocalsOK ==
  /\ view \in [Operators -> [version : Nat, settings : Settings]]
  /\ request \in [Operators -> Requests]
  /\ schedule \in Seq(Steps) /\ next \in Nat
  /\ read \in [settings : Settings, source : Sources]
  /\ pc = "replay" => /\ next - 1 \in DOMAIN schedule
                      /\ Valid(Apply(read.settings, Taken.patch))
  /\ Valid(planner) /\ \A c \in changes : Valid(c.settings)
  /\ IsFiniteSet(changes)

\* A version names the settings it was read with.
VersionsAgree == \A o \in Operators :
  /\ view[o].version <= version
  /\ view[o].version = version => view[o].settings = settings
  /\ request[o].expected <= version
  /\ request[o].expected = version => request[o].seen = settings

\* The record is behind what is applied while the engine is about to add to
\* it, and has it as its latest change otherwise.
RecordIsBehind ==
  /\ \A c \in changes : c.version >= 1 /\ c.version <= applied /\ c.cycle <= cycle
  /\ pc \in {"plan", "replay", "record"} => \A c \in changes : c.cycle < cycle
  /\ pc = "record" => applied >= 1 /\ \A c \in changes : c.version < applied
  /\ pc \in {"plan", "replay", "work"} /\ applied # 0 =>
       \E c \in changes : c.version = applied /\ c.settings = planner
  /\ pc = "work" => applied # 0
  /\ changes # {} => \E c \in changes : \A d \in changes : c.version <= d.version

IInv ==
  /\ TypeOK /\ LocalsOK
  /\ VersionsAgree
  /\ RecordIsBehind /\ EffectIsRecorded

-----------------------------------------------------------------------------
(* Settings and schedules. *)

\* A patch of settings leaves settings (IntentSettings.Patched).
LEMMA ApplyType ==
  ASSUME NEW s \in Settings, NEW p \in Partial
  PROVE  Apply(s, p) \in Settings
BY DEF Apply, Settings, Partial

\* Settings are patches that leave nothing out.
LEMMA PartialSettings == Settings \subseteq Partial
BY DEF Settings, Partial

\* The empty patch is a patch.
LEMMA NoPatch == <<>> \in Partial
<1>1. <<>> \in [{} -> Levels]
  OBVIOUS
<1> QED BY <1>1 DEF Partial

\* Some change is the first one, once there is one.
LEMMA FirstExists ==
  ASSUME RecordIsBehind, changes # {}
  PROVE  First \in changes
BY DEF RecordIsBehind, First

\* What a replay is given is a schedule.
LEMMA SchedulesType ==
  ASSUME NEW cs, IsFiniteSet(cs), cs \subseteq Changes, NEW s \in Schedules(cs)
  PROVE  s \in Seq(Steps)
<1>1. Cardinality(cs) \in Nat
  BY FS_CardinalityType
<1>2. \A c \in cs : Step(c) \in Steps
  BY PartialSettings DEF Step, Steps, Changes
<1>3. s \in [1 .. Cardinality(cs) -> Steps]
  BY <1>2 DEF Schedules
<1> QED BY <1>1, <1>3

-----------------------------------------------------------------------------
(* The invariant. *)

\* The invariant holds when the run is created.
LEMMA Initially == Init => IInv
<1> SUFFICES ASSUME Init PROVE IInv
  OBVIOUS
<1> USE IntentAssumption DEF Init, NoView, NoRequest
<1>1. TypeOK
  <2>1. next \in 1 .. Len(schedule) + 1 /\ cycle \in 1 .. MaxCycle /\ edits \in 0 .. MaxEdits
    OBVIOUS
  <2>2. meddled \in BOOLEAN /\ active \in BOOLEAN
    BY Zenon
  <2> QED BY <2>1, <2>2 DEF TypeOK, Sources, Changes
<1>2. LocalsOK
  BY NoPatch, FS_EmptySet DEF LocalsOK, Requests, Sources
<1>3. VersionsAgree /\ RecordIsBehind /\ EffectIsRecorded
  BY DEF VersionsAgree, RecordIsBehind, EffectIsRecorded
<1> QED BY <1>1, <1>2, <1>3 DEF IInv

\* No operator, no step of the engine and no replay breaks it.
LEMMA Inductive == IInv /\ [Next]_vars => IInv'
<1> SUFFICES ASSUME IInv, [Next]_vars
             PROVE  IInv'
  OBVIOUS
<1> USE IntentAssumption
<1> USE DEF IInv, control, people, loop, effect
<1>1. ASSUME NEW o \in Operators, Current(o)
      PROVE  IInv'
  <2> USE <1>1 DEF Current
  <2>1. TypeOK'
    BY DEF TypeOK, LocalsOK
  <2>2. LocalsOK'
    BY DEF TypeOK, LocalsOK, Taken
  <2>3. VersionsAgree'
    BY DEF VersionsAgree, TypeOK, LocalsOK
  <2>4. RecordIsBehind' /\ EffectIsRecorded'
    BY DEF RecordIsBehind, EffectIsRecorded
  <2> QED BY <2>1, <2>2, <2>3, <2>4
<1>2. ASSUME NEW o \in Operators, NEW p \in Patches, NEW named \in BOOLEAN,
             Find(o, p, named)
      PROVE  IInv'
  <2> USE <1>2 DEF Find
  <2>1. TypeOK'
    BY DEF TypeOK, LocalsOK, Requests
  <2>2. LocalsOK'
    BY DEF TypeOK, LocalsOK, Taken, Requests
  <2>3. VersionsAgree'
    BY DEF VersionsAgree, TypeOK, LocalsOK, Requests
  <2>4. RecordIsBehind' /\ EffectIsRecorded'
    BY DEF RecordIsBehind, EffectIsRecorded
  <2> QED BY <2>1, <2>2, <2>3, <2>4
<1>3. ASSUME NEW o \in Operators, Patch(o)
      PROVE  IInv'
  <2> USE <1>3 DEF Patch
  <2>1. Apply(settings, request[o].patch) \in Settings
    BY ApplyType DEF TypeOK, LocalsOK, Requests
  <2>2. version' \in Nat \ {0} /\ version <= version'
        /\ (version' = version => settings' = settings)
    BY DEF TypeOK
  <2>3. TypeOK'
    BY <2>1, <2>2 DEF TypeOK, LocalsOK, Accepts, NoRequest, Sources
  <2>4. LocalsOK'
    BY NoPatch DEF TypeOK, LocalsOK, Taken, Requests, NoRequest
  <2>5. VersionsAgree'
    BY <2>2 DEF VersionsAgree, TypeOK, LocalsOK, Requests, NoRequest
  <2>6. RecordIsBehind' /\ EffectIsRecorded'
    BY DEF RecordIsBehind, EffectIsRecorded
  <2> QED BY <2>3, <2>4, <2>5, <2>6
<1>4. ASSUME ReadCurrent
      PROVE  IInv'
  <2> USE <1>4 DEF ReadCurrent, At, Due
  <2>1. next \in DOMAIN schedule
    BY DEF TypeOK, LocalsOK
  <2>2. TypeOK'
    BY DEF TypeOK, LocalsOK
  <2>3. LocalsOK'
    <3>1. Taken' = schedule[next] /\ next' - 1 \in DOMAIN schedule'
      BY <2>1 DEF LocalsOK, Taken, TypeOK
    <3>2. read' \in [settings : Settings, source : Sources]
          /\ read'.settings = settings
      BY DEF TypeOK, LocalsOK
    <3>3. pc' = "replay" => Valid(Apply(read'.settings, Taken'.patch))
      BY <3>1, <3>2
    <3>4. Valid(Apply(read.settings, Taken.patch))'
          <=> Valid(Apply(read'.settings, Taken'.patch))
      BY DEF Valid, Apply
    <3> QED BY <3>1, <3>2, <3>3, <3>4 DEF LocalsOK
  <2>4. VersionsAgree' /\ RecordIsBehind' /\ EffectIsRecorded'
    BY DEF VersionsAgree, RecordIsBehind, EffectIsRecorded
  <2> QED BY <2>2, <2>3, <2>4
<1>5. ASSUME Replay
      PROVE  IInv'
  <2> USE <1>5 DEF Replay, At
  <2>1. Taken \in Steps
    BY DEF LocalsOK, Taken
  <2>2. Apply(read.settings, Taken.patch) \in Settings
    BY <2>1, ApplyType DEF LocalsOK, Steps
  <2>3. version' \in Nat \ {0} /\ version < version'
    BY <2>1 DEF TypeOK, ReplayedVersion, Steps
  <2>4. TypeOK'
    <3>1. settings' \in Settings /\ Valid(settings') /\ source' \in Sources
      BY <2>1, <2>2 DEF LocalsOK, Steps
    <3>2. applied' \in 0 .. version'
      BY <2>3 DEF TypeOK
    <3>3. Valid(settings)' <=> Valid(settings')
      BY DEF Valid
    <3> QED BY <2>3, <3>1, <3>2, <3>3 DEF TypeOK
  <2>5. LocalsOK'
    BY DEF TypeOK, LocalsOK, Taken
  <2>6. VersionsAgree'
    BY <2>3 DEF VersionsAgree, TypeOK, LocalsOK, Requests
  <2>7. RecordIsBehind' /\ EffectIsRecorded'
    BY DEF RecordIsBehind, EffectIsRecorded
  <2> QED BY <2>4, <2>5, <2>6, <2>7
<1>6. ASSUME TakeEffect
      PROVE  IInv'
  <2> USE <1>6 DEF TakeEffect, At
  <2>1. TypeOK'
    BY DEF TypeOK, LocalsOK
  <2>2. LocalsOK'
    BY DEF TypeOK, LocalsOK
  <2>3. VersionsAgree'
    BY DEF VersionsAgree
  <2>4. RecordIsBehind' /\ EffectIsRecorded'
    BY DEF RecordIsBehind, EffectIsRecorded, TypeOK, Changes
  <2> QED BY <2>1, <2>2, <2>3, <2>4
<1>7. ASSUME SaveIntentChange
      PROVE  IInv'
  <2> USE <1>7 DEF SaveIntentChange, At
  <2>1. CASE pc' = "over" /\ changes' = changes
    BY <2>1 DEF TypeOK, LocalsOK, VersionsAgree, RecordIsBehind, EffectIsRecorded
  <2>2. CASE pc' = "work" /\ changes' = {c \in changes : c.version # applied} \cup {Change}
    <3> USE <2>2
    <3>1. Change \in Changes /\ Valid(Change.settings)
          /\ Change.version = applied /\ Change.cycle = cycle /\ Change.settings = planner
      BY DEF Change, Changes, TypeOK, LocalsOK
    <3>2. applied \in Nat /\ cycle \in Nat
          /\ \A c \in changes : c.version \in Nat /\ c.cycle \in Nat
      BY DEF TypeOK, Changes
    <3>3. changes' = changes \cup {Change}
      <4>1. \A c \in changes : c.version # applied
        BY <3>2 DEF RecordIsBehind
      <4>2. {c \in changes : c.version # applied} = changes
        BY <4>1
      <4> QED BY <4>2
    <3>4. TypeOK'
      BY <3>1, <3>3 DEF TypeOK
    <3>5. LocalsOK'
      <4>1. IsFiniteSet(changes')
        <5>1. IsFiniteSet(changes)
          BY DEF LocalsOK
        <5>2. IsFiniteSet(changes \cup {Change})
          BY ONLY <5>1, FS_AddElement
        <5> QED BY ONLY <5>2, <3>3
      <4>2. \A c \in changes' : Valid(c.settings)
        BY <3>1, <3>3 DEF LocalsOK
      <4> QED BY <4>1, <4>2 DEF LocalsOK, Valid
    <3>6. VersionsAgree'
      BY DEF VersionsAgree
    <3>7. RecordIsBehind'
      BY <3>1, <3>2, <3>3 DEF RecordIsBehind
    <3>8. EffectIsRecorded'
      BY <3>1, <3>2, <3>3 DEF RecordIsBehind, EffectIsRecorded
    <3> QED BY <3>4, <3>5, <3>6, <3>7, <3>8
  <2> QED BY <2>1, <2>2
<1>8. ASSUME Work
      PROVE  IInv'
  <2> USE <1>8 DEF Work, At
  <2>1. TypeOK' /\ LocalsOK' /\ VersionsAgree'
    BY DEF TypeOK, LocalsOK, VersionsAgree
  <2>2. RecordIsBehind' /\ EffectIsRecorded'
    BY DEF RecordIsBehind, EffectIsRecorded, TypeOK, Changes
  <2> QED BY <2>1, <2>2
<1>9. ASSUME Unwind
      PROVE  IInv'
  BY <1>9 DEF Unwind, TypeOK, LocalsOK, VersionsAgree, RecordIsBehind, EffectIsRecorded
<1>10. ASSUME StartReplay
       PROVE  IInv'
  <2> USE <1>10 DEF StartReplay, NoView
  <2>1. First \in changes
    BY FirstExists
  <2>2. First.settings \in Settings /\ Valid(First.settings)
    BY <2>1 DEF TypeOK, LocalsOK, Changes
  <2>3. schedule' \in Seq(Steps)
    BY SchedulesType, FS_RemoveElement DEF TypeOK, LocalsOK
  <2>4. TypeOK'
    <3>1. /\ settings' \in Settings /\ Valid(settings') /\ version' \in Nat \ {0}
          /\ source' \in Sources
          /\ edits' \in 0 .. MaxEdits /\ pc' \in {"plan", "replay", "record", "work", "over"}
      BY <2>2 DEF TypeOK, Sources
    <3>0. active' \in BOOLEAN /\ meddled' \in BOOLEAN
      BY Zenon
    <3>2. /\ cycle' \in 1 .. MaxCycle /\ next' \in 1 .. Len(schedule') + 1
          /\ applied' \in 0 .. version' /\ planner' \in Settings
          /\ changes' \subseteq Changes /\ original' \subseteq Changes
      BY <2>2, <2>3 DEF TypeOK
    <3>3. \A o \in Operators :
            /\ view'[o].version \in Nat /\ view'[o].settings \in Settings
            /\ request'[o] = NoRequest \/ request'[o].patch \in Patches
      BY DEF TypeOK
    <3>4. Valid(settings)' <=> Valid(settings')
      BY DEF Valid
    <3> QED BY <3>0, <3>1, <3>2, <3>3, <3>4 DEF TypeOK
  <2>5. LocalsOK'
    BY <2>2, <2>3, FS_EmptySet DEF LocalsOK, Sources
  <2>6. VersionsAgree'
    BY DEF VersionsAgree, NoRequest
  <2>7. RecordIsBehind' /\ EffectIsRecorded'
    BY DEF RecordIsBehind, EffectIsRecorded
  <2> QED BY <2>4, <2>5, <2>6, <2>7
<1>11. CASE UNCHANGED vars
  BY <1>11 DEF vars, TypeOK, LocalsOK, Taken, VersionsAgree, RecordIsBehind, EffectIsRecorded
<1> QED BY <1>1, <1>2, <1>3, <1>4, <1>5, <1>6, <1>7, <1>8, <1>9, <1>10, <1>11
        DEF Next, Engine, Operator

\* And ever after.
LEMMA Invariant == Spec => []IInv
<1>1. IInv /\ [Next]_vars => IInv'
  BY Inductive
<1> QED BY Initially, <1>1, PTL DEF Spec

-----------------------------------------------------------------------------
(* The theorems. *)

\* Whatever the operators, their patches and the schedule, every variable stays
\* in its range and the settings in force are usable.
THEOREM TypeCorrect == Spec => []TypeOK
<1>1. IInv => TypeOK
  BY DEF IInv
<1> QED BY Invariant, <1>1, PTL

\* The settings every cycle works under are on record with the cycle they took
\* effect in, for a run of any length (applyIntent, SaveIntentChange).
THEOREM RecordIsComplete == Spec => []EffectIsRecorded
<1>1. IInv => EffectIsRecorded
  BY DEF IInv
<1> QED BY Invariant, <1>1, PTL

\* However many operators there are, and whatever the schedule does between
\* them, a change that names a version is accepted only on the settings its
\* operator saw (Control.Patch, Control.Replay).
THEOREM VersionsGuard == Spec => NoSilentOverwrite
<1> DEFINE Guarded(o) ==
      request'[o] = NoRequest /\ request[o].expected > 0 /\ version' # version
        => settings = request[o].seen
<1>1. ASSUME IInv, Next, NEW o \in Operators
      PROVE  Guarded(o)
  <2> USE <1>1 DEF NoRequest
  <2>1. ASSUME NEW x \in Operators, Patch(x) PROVE Guarded(o)
    <3>1. request \in [Operators -> Requests]
      BY DEF IInv, LocalsOK
    <3>2. CASE x = o
      BY <2>1, <3>1, <3>2 DEF Patch, Accepts, control, IInv, VersionsAgree, Requests
    <3>3. CASE x # o
      BY <2>1, <3>1, <3>3 DEF Patch
    <3> QED BY <3>2, <3>3
  <2>2. ASSUME Replay \/ StartReplay PROVE Guarded(o)
    BY <2>2 DEF Replay, StartReplay, people
  <2>3. ASSUME version' = version PROVE Guarded(o)
    BY <2>3
  <2> QED BY <2>1, <2>2, <2>3
      DEF Next, Engine, Operator, Current, Find, ReadCurrent, TakeEffect,
          SaveIntentChange, Work, Unwind, control
<1>2. ASSUME IInv, [Next]_vars
      PROVE  [\A o \in Operators : Guarded(o)]_vars
  BY <1>1, <1>2
<1> QED BY Invariant, <1>2, PTL DEF Spec, NoSilentOverwrite
-----------------------------------------------------------------------------
(* A replay.  What is recorded of a run can be replayed: its first change is *)
(* of its first cycle, and versions tell its changes apart.  A run that      *)
(* replays it, while no operator changes its intent, goes through the        *)
(* changes one by one, each in the cycle it took effect in and with the      *)
(* version it had; only the first gets version 1, which NewControl starts    *)
(* from.                                                                     *)

Recorded(cs) ==
  /\ \A c \in cs : c.version >= 1 /\ c.cycle >= 1
  /\ \A c, d \in cs : c.version = d.version => c = d
  /\ \A c, d \in cs : c.version < d.version <=> c.cycle < d.cycle
  /\ cs # {} => \E c \in cs : c.cycle = 1

\* What the replay starts from, what it has as its schedule, and what it is to
\* put in force one after the other.
Origin == CHOOSE c \in original : \A d \in original : c.version <= d.version
Later  == original \ {Origin}
Start  == [version |-> 1, cycle |-> Origin.cycle, settings |-> Origin.settings,
           source |-> "initial"]
Played == {Start} \cup Later

InForce(c) == settings = c.settings /\ version = c.version /\ source = c.source

\* A run records a change in its first cycle, or fails in it.
FirstIsRecorded ==
  changes = {} /\ pc \in {"plan", "replay", "record"} => cycle = 1

SchedulePlays ==
  /\ \A i \in DOMAIN schedule : \E c \in Later : schedule[i] = Step(c)
  /\ \A c \in Later : \E i \in DOMAIN schedule : schedule[i] = Step(c)
  /\ \A i, j \in DOMAIN schedule : i < j => schedule[i].version < schedule[j].version

\* The control has one of the changes, with its version, and has it from the
\* cycle it took effect in; it is applied and put on record in that cycle.
ControlPlays == \E c \in Played :
  /\ InForce(c) /\ c.cycle <= cycle
  /\ pc = "plan" => (version # applied <=> c.cycle = cycle)
  /\ pc = "record" => c.cycle = cycle

\* Which changes were put in force and which are yet to be: none is late.
InPlace ==
  /\ \A i \in DOMAIN schedule :
       schedule[i].version <= version <=> i < (IF pc = "replay" THEN next - 1 ELSE next)
  /\ \A c \in Played : c.version > version =>
       IF pc \in {"plan", "replay"} THEN c.cycle >= cycle ELSE c.cycle > cycle
  /\ pc = "replay" => Taken.cycle = cycle
  /\ pc \in {"record", "work"} => applied = version
  /\ pc = "record" => planner = settings /\ read.source = source

RecordPlays ==
  changes = {c \in Played : c.cycle <= IF pc = "work" THEN cycle ELSE cycle - 1}

NobodyAsks == \A o \in Operators : request[o] = NoRequest

ReplayInv ==
  /\ FirstIsRecorded /\ Recorded(changes) /\ Recorded(original)
  /\ original # {} => SchedulePlays
  /\ original # {} /\ ~meddled => NobodyAsks
  /\ original # {} /\ ~meddled /\ pc # "over" => ControlPlays /\ InPlace /\ RecordPlays

\* The first of what is recorded is of the first cycle and older than the rest.
LEMMA OriginIsFirst ==
  ASSUME NEW cs, cs \subseteq Changes, Recorded(cs), cs # {},
         NEW f, f = CHOOSE c \in cs : \A d \in cs : c.version <= d.version
  PROVE  /\ f \in cs /\ f.cycle = 1
         /\ \A d \in cs \ {f} : f.version < d.version /\ 1 < d.version /\ 1 < d.cycle
<1>1. \A c \in cs : c.version \in Nat /\ c.cycle \in Nat
  BY IntentAssumption DEF Changes
<1>2. PICK c \in cs : c.cycle = 1
  BY DEF Recorded
<1>3. \A d \in cs : c.version <= d.version
  BY <1>1, <1>2 DEF Recorded
<1>4. f \in cs /\ \A d \in cs : f.version <= d.version
  BY <1>3
<1>5. f = c
  BY <1>1, <1>3, <1>4 DEF Recorded
<1>6. ASSUME NEW d \in cs \ {f}
      PROVE  f.version < d.version /\ 1 < d.version /\ 1 < d.cycle
  <2>1. f.version # d.version
    BY <1>4 DEF Recorded
  <2>2. f.version < d.version
    BY <1>1, <1>4, <2>1
  <2>3. 1 <= f.version /\ f.cycle < d.cycle
    BY <1>4, <2>2 DEF Recorded
  <2>4. /\ f.version \in Nat /\ d.version \in Nat /\ d.cycle \in Nat
        /\ f.cycle = 1
    BY <1>1, <1>2, <1>4, <1>5
  <2> QED BY ONLY <2>2, <2>3, <2>4
<1> QED BY <1>2, <1>4, <1>5, <1>6

\* What is to be played is in one order, by version as by cycle.
LEMMA PlayedInOrder ==
  ASSUME original \subseteq Changes, Recorded(original), original # {}
  PROVE  /\ Origin \in original /\ Origin.cycle = 1 /\ Origin \notin Later
         /\ Start \in Played /\ Start.version = 1 /\ Start.cycle = 1
         /\ Start.settings = Origin.settings
         /\ Played \subseteq Changes
         /\ \A c \in Later : 1 < c.version /\ 1 < c.cycle
         /\ \A c, d \in Played : c.version = d.version => c = d
         /\ \A c, d \in Played : c.version < d.version <=> c.cycle < d.cycle
<1>1. /\ Origin \in original /\ Origin.cycle = 1
      /\ \A d \in original \ {Origin} : 1 < d.version /\ 1 < d.cycle
  BY OriginIsFirst DEF Origin
<1>2. /\ Start.version = 1 /\ Start.cycle = 1 /\ Start.settings = Origin.settings
      /\ Start \in Changes
  BY <1>1, IntentAssumption DEF Start, Changes, Sources
<1>3. Later \subseteq original /\ Later \subseteq Changes
  BY DEF Later
<1>4. \A c \in Later : 1 < c.version /\ 1 < c.cycle
  BY <1>1 DEF Later
<1>5. \A c \in Changes : c.version \in Nat /\ c.cycle \in Nat
  BY IntentAssumption DEF Changes
<1>6. \A c, d \in Played : c.version = d.version => c = d
  BY <1>2, <1>3, <1>4, <1>5 DEF Played, Recorded
<1>7. \A c, d \in Played : c.version < d.version <=> c.cycle < d.cycle
  <2> TAKE c, d \in Played
  <2>1. CASE c \in Later /\ d \in Later
    BY <2>1, <1>3 DEF Recorded
  <2>2. CASE c = Start \/ d = Start
    BY <2>2, <1>2, <1>3, <1>4, <1>5 DEF Played
  <2> QED BY <2>1, <2>2 DEF Played
<1> QED BY <1>1, <1>2, <1>3, <1>4, <1>6, <1>7 DEF Later, Played

\* A schedule made of changes has each of them, in the order of versions.
LEMMA SchedulesAreComplete ==
  ASSUME NEW cs, IsFiniteSet(cs), cs \subseteq Changes, NEW s \in Schedules(cs),
         \A c, d \in cs : c.version = d.version => c = d
  PROVE  /\ DOMAIN s = 1 .. Cardinality(cs)
         /\ \A i \in DOMAIN s : \E c \in cs : s[i] = Step(c)
         /\ \A c \in cs : \E i \in DOMAIN s : s[i] = Step(c)
         /\ \A i, j \in DOMAIN s : i < j => s[i].version < s[j].version
<1>1. Cardinality(cs) \in Nat
  BY FS_CardinalityType
<1>2. DOMAIN s = 1 .. Cardinality(cs)
  BY DEF Schedules
<1>3. \A i \in DOMAIN s : \E c \in cs : s[i] = Step(c)
  BY DEF Schedules
<1>4. \A i, j \in DOMAIN s : i < j => s[i].version < s[j].version
  BY DEF Schedules
<1>5. \A c \in cs : Step(c).version = c.version /\ c.version \in Nat
  BY DEF Step, Changes
<1> DEFINE change == [i \in 1 .. Cardinality(cs) |-> CHOOSE c \in cs : s[i] = Step(c)]
<1>6. \A i \in 1 .. Cardinality(cs) : change[i] \in cs /\ s[i] = Step(change[i])
  BY <1>2, <1>3
<1>7. change \in [1 .. Cardinality(cs) -> cs]
  BY <1>6
<1> HIDE DEF change
<1>8. \A i, j \in 1 .. Cardinality(cs) : change[i] = change[j] => i = j
  <2> SUFFICES ASSUME NEW i \in 1 .. Cardinality(cs), NEW j \in 1 .. Cardinality(cs),
                      change[i] = change[j], i < j
               PROVE  FALSE
    BY <1>1
  <2> QED BY <1>2, <1>4, <1>5, <1>6
<1>9. change \in Injection(1 .. Cardinality(cs), cs)
  BY <1>7, <1>8 DEF Injection, IsInjective
<1>10. Cardinality(1 .. Cardinality(cs)) = Cardinality(cs)
  BY <1>1, FS_Interval
<1>11. change \in Surjection(1 .. Cardinality(cs), cs)
  BY <1>9, <1>10, FS_Injection
<1>12. \A c \in cs : \E i \in DOMAIN s : s[i] = Step(c)
  BY <1>2, <1>6, <1>11 DEF Surjection
<1> QED BY <1>2, <1>3, <1>4, <1>12

-----------------------------------------------------------------------------
(* That a replay stays in place, step by step.                              *)

\* What only concerns the run that is recorded.
LEMMA RecordedInductive ==
  ASSUME IInv, ReplayInv, [Next]_vars
  PROVE  FirstIsRecorded' /\ Recorded(changes)'
<1> USE DEF ReplayInv, control, people, loop, effect
<1>1. ASSUME UNCHANGED changes,
             cycle' = cycle /\ (pc' \in {"plan", "replay", "record"} => pc \in {"plan", "replay", "record"})
      PROVE  FirstIsRecorded' /\ Recorded(changes)'
  BY <1>1 DEF FirstIsRecorded, Recorded
<1>2. ASSUME NEW o \in Operators, Operator(o)
      PROVE  FirstIsRecorded' /\ Recorded(changes)'
  BY <1>1, <1>2 DEF Operator, Current, Patch, Find
<1>3. ASSUME ReadCurrent \/ Replay \/ TakeEffect \/ Unwind
      PROVE  FirstIsRecorded' /\ Recorded(changes)'
  BY <1>1, <1>3 DEF ReadCurrent, Replay, TakeEffect, Unwind, At
<1>4. ASSUME SaveIntentChange
      PROVE  FirstIsRecorded' /\ Recorded(changes)'
  <2>1. CASE pc' = "over" /\ changes' = changes
    BY <1>1, <1>4, <2>1 DEF SaveIntentChange, At
  <2>2. CASE pc' = "work" /\ changes' = {c \in changes : c.version # applied} \cup {Change}
    <3>1. pc = "record" /\ Change.version = applied /\ Change.cycle = cycle
      BY <1>4, <2>2 DEF SaveIntentChange, At, Change
    <3>2. applied \in Nat /\ 1 <= applied /\ cycle \in Nat /\ 1 <= cycle
          /\ \A c \in changes : /\ c.version \in Nat /\ c.cycle \in Nat
                                /\ c.version < applied /\ c.cycle < cycle
      BY <3>1, IntentAssumption DEF IInv, TypeOK, RecordIsBehind, Changes
    <3>3. changes' = changes \cup {Change}
      <4>1. {c \in changes : c.version # applied} = changes
        BY <3>2
      <4> QED BY <2>2, <4>1
    <3>4. Change \in changes' /\ changes' # {}
      BY <3>3
    <3>5. \E c \in changes' : c.cycle = 1
      <4>1. CASE changes = {}
        BY <4>1, <3>1, <3>4 DEF FirstIsRecorded
      <4>2. CASE changes # {}
        BY <4>2, <3>3 DEF Recorded
      <4> QED BY <4>1, <4>2
    <3>6. \A c \in changes' : c.version >= 1 /\ c.cycle >= 1
      BY <3>1, <3>2, <3>3 DEF Recorded
    <3>7. \A c, d \in changes' : c.version = d.version => c = d
      BY <3>1, <3>2, <3>3 DEF Recorded
    <3>8. \A c, d \in changes' : c.version < d.version <=> c.cycle < d.cycle
      BY <3>1, <3>2, <3>3 DEF Recorded
    <3> QED BY <2>2, <3>5, <3>6, <3>7, <3>8 DEF FirstIsRecorded, Recorded
  <2> QED BY <1>4, <2>1, <2>2 DEF SaveIntentChange, At
<1>5. ASSUME Work
      PROVE  FirstIsRecorded' /\ Recorded(changes)'
  <2>1. changes # {} /\ changes' = changes
    BY <1>5 DEF Work, At, IInv, RecordIsBehind
  <2> QED BY <2>1 DEF FirstIsRecorded, Recorded
<1>6. ASSUME StartReplay
      PROVE  FirstIsRecorded' /\ Recorded(changes)'
  BY <1>6 DEF StartReplay, FirstIsRecorded, Recorded
<1>7. CASE UNCHANGED vars
  BY <1>1, <1>7 DEF vars
<1> QED BY <1>2, <1>3, <1>4, <1>5, <1>6, <1>7 DEF Next, Engine

\* The parts of the invariant that are about a replay while it is going on.
Playing == ControlPlays /\ InPlace /\ RecordPlays

\* Nothing of a replay depends on what operators look at.
LEMMA PlayingStays ==
  ASSUME Playing, UNCHANGED <<control, pc, cycle, loop, effect, original>>
  PROVE  Playing'
BY DEF Playing, ControlPlays, InForce, InPlace, RecordPlays, Played, Start, Later, Origin,
       Taken, control, loop, effect

\* What a step of a replay relies on.
LEMMA Numbers ==
  ASSUME IInv
  PROVE  /\ version \in Nat /\ applied \in Nat /\ applied <= version
         /\ cycle \in Nat /\ 1 <= cycle /\ next \in Nat
         /\ next \in 1 .. Len(schedule) + 1
         /\ schedule \in Seq(Steps) /\ DOMAIN schedule = 1 .. Len(schedule)
         /\ Len(schedule) \in Nat
         /\ \A i \in DOMAIN schedule : schedule[i].version \in Nat /\ schedule[i].cycle \in Nat
         /\ \A c \in Changes : c.version \in Nat /\ c.cycle \in Nat /\ c.settings \in Settings
         /\ original \subseteq Changes
<1>1. schedule \in Seq(Steps) /\ next \in Nat
  BY DEF IInv, LocalsOK
<1>2. /\ Len(schedule) \in Nat /\ DOMAIN schedule = 1 .. Len(schedule)
      /\ \A i \in DOMAIN schedule : schedule[i] \in Steps
  BY <1>1
<1>3. \A i \in DOMAIN schedule : schedule[i].version \in Nat /\ schedule[i].cycle \in Nat
  BY <1>2 DEF Steps
<1>4. /\ version \in Nat /\ applied \in 0 .. version /\ cycle \in 1 .. MaxCycle
      /\ next \in 1 .. Len(schedule) + 1 /\ original \subseteq Changes
  BY DEF IInv, TypeOK
<1>5. \A c \in Changes : c.version \in Nat /\ c.cycle \in Nat /\ c.settings \in Settings
  BY IntentAssumption DEF Changes
<1> QED BY <1>1, <1>2, <1>3, <1>4, <1>5, IntentAssumption

\* NewControl and newIntentLoop of a replay: its first change is in force.
LEMMA PlayingStarts ==
  ASSUME IInv, ReplayInv, StartReplay
  PROVE  SchedulePlays' /\ NobodyAsks' /\ Playing'
<1>1. /\ changes # {} /\ original' = changes /\ request' = request
      /\ \A o \in Operators : request[o] = NoRequest
      /\ settings' = First.settings /\ version' = 1 /\ source' = "initial"
      /\ pc' = "plan" /\ cycle' = 1 /\ next' = 1 /\ applied' = 0 /\ changes' = {}
      /\ schedule' \in Schedules(changes \ {First})
  BY DEF StartReplay
<1>2. changes \subseteq Changes /\ IsFiniteSet(changes) /\ Recorded(changes)
  BY DEF IInv, TypeOK, LocalsOK, ReplayInv
<1>3. Origin' = First /\ Later' = changes \ {First}
  BY <1>1 DEF Origin, First, Later
<1>4. /\ First \in changes /\ First.cycle = 1
      /\ \A d \in changes \ {First} : 1 < d.version /\ 1 < d.cycle
  BY <1>1, <1>2, OriginIsFirst DEF First
<1>5. IsFiniteSet(changes \ {First}) /\ changes \ {First} \subseteq Changes
  BY <1>2, FS_RemoveElement
<1>6. \A c, d \in changes \ {First} : c.version = d.version => c = d
  BY <1>2 DEF Recorded
<1>7. /\ \A i \in DOMAIN schedule' : \E c \in changes \ {First} : schedule'[i] = Step(c)
      /\ \A c \in changes \ {First} : \E i \in DOMAIN schedule' : schedule'[i] = Step(c)
      /\ \A i, j \in DOMAIN schedule' : i < j => schedule'[i].version < schedule'[j].version
      /\ DOMAIN schedule' = 1 .. Cardinality(changes \ {First})
  BY <1>1, <1>5, <1>6, SchedulesAreComplete
<1>8. SchedulePlays'
  BY <1>1, <1>3, <1>7 DEF SchedulePlays, Step
<1>9. PICK start : start = [version |-> 1, cycle |-> 1, settings |-> First.settings, source |-> "initial"]
  OBVIOUS
<1>10. Start' = start /\ Played' = {start} \cup (changes \ {First})
  BY <1>3, <1>4, <1>9 DEF Start, Played
<1>11. ControlPlays'
  BY <1>1, <1>9, <1>10 DEF ControlPlays, InForce
<1>12. InPlace'
  <2>1. \A c \in changes : c.version \in Nat /\ c.cycle \in Nat
    BY <1>2, IntentAssumption DEF Changes
  <2>2. \A i \in DOMAIN schedule' : 1 < schedule'[i].version /\ ~ i < 1
                                    /\ schedule'[i].version \in Nat
    BY <1>4, <1>7, <2>1, FS_CardinalityType, <1>5 DEF Step
  <2>3. \A c \in Played' : c.version > 1 => c.cycle >= 1
    BY <1>4, <1>9, <1>10, <2>1
  <2>4. \A i \in DOMAIN schedule' : schedule'[i].version <= 1 <=> i < 1
    BY <2>2
  <2> QED BY <1>1, <2>3, <2>4 DEF InPlace
<1>13. RecordPlays'
  <2>1. \A c \in Played' : ~ c.cycle <= 0
    BY <1>2, <1>4, <1>9, <1>10, IntentAssumption DEF Changes
  <2> QED BY <1>1, <2>1 DEF RecordPlays
<1>14. NobodyAsks'
  BY <1>1 DEF NobodyAsks, NoRequest
<1> QED BY <1>8, <1>11, <1>12, <1>13, <1>14 DEF Playing

\* The next change is taken from the schedule in the cycle it took effect in.
LEMMA PlayingReadCurrent ==
  ASSUME IInv, original \subseteq Changes, Recorded(original), original # {},
         SchedulePlays, Playing, ReadCurrent, pc' # "over"
  PROVE  Playing'
<1>1. /\ pc = "plan" /\ pc' = "replay" /\ next' = next + 1
      /\ UNCHANGED <<settings, version, source, cycle, schedule, applied, planner, changes, original>>
      /\ next <= Len(schedule) /\ schedule[next].cycle <= cycle
  BY DEF ReadCurrent, At, Due, control, effect
<1>2. Played' = Played
  BY <1>1 DEF Played, Start, Later, Origin
<1>3. ControlPlays'
  BY <1>1, <1>2 DEF Playing, ControlPlays, InForce
<1>4. RecordPlays'
  BY <1>1, <1>2 DEF Playing, RecordPlays
<1>5. next \in DOMAIN schedule /\ next' - 1 = next
  BY <1>1, Numbers
<1>6. schedule[next].cycle = cycle
  <2>1. ~ schedule[next].version <= version
    BY <1>1, <1>5, Numbers DEF Playing, InPlace
  <2>2. PICK c \in Later : schedule[next] = Step(c)
    BY <1>5 DEF SchedulePlays
  <2>3. c.version > version /\ c.cycle = schedule[next].cycle /\ c \in Played
    BY <2>1, <2>2, Numbers, <1>5 DEF Step, Played
  <2>4. c.cycle >= cycle
    BY <1>1, <2>3 DEF Playing, InPlace
  <2> QED BY <1>1, <1>5, <2>3, <2>4, Numbers
<1>7. InPlace'
  <2>1. Taken' = schedule[next]
    BY <1>1, <1>5 DEF Taken
  <2>2. \A i \in DOMAIN schedule : schedule[i].version <= version <=> i < next
    BY <1>1 DEF Playing, InPlace
  <2>3. \A c \in Played : c.version > version => c.cycle >= cycle
    BY <1>1 DEF Playing, InPlace
  <2> QED BY <1>1, <1>2, <1>5, <1>6, <2>1, <2>2, <2>3 DEF InPlace
<1> QED BY <1>3, <1>4, <1>7 DEF Playing

\* Control.Replay puts it in force, with the version it had.
LEMMA PlayingReplay ==
  ASSUME IInv, original \subseteq Changes, Recorded(original), original # {},
         SchedulePlays, Playing, Replay
  PROVE  Playing'
<1>1. /\ pc = "replay" /\ pc' = "plan" /\ Taken = schedule[next - 1]
      /\ settings' = Apply(read.settings, Taken.patch)
      /\ version' = ReplayedVersion(Taken.version) /\ source' = Taken.source
      /\ UNCHANGED <<cycle, schedule, next, applied, planner, changes, original>>
  BY DEF Replay, At, Taken, loop, effect
<1>2. Played' = Played
  BY <1>1 DEF Played, Start, Later, Origin
<1>3. next - 1 \in DOMAIN schedule
  BY <1>1 DEF IInv, LocalsOK
<1>4. /\ \A i \in DOMAIN schedule : schedule[i].version <= version <=> i < next - 1
      /\ \A c \in Played : c.version > version => c.cycle >= cycle
      /\ Taken.cycle = cycle
  BY <1>1 DEF Playing, InPlace
<1>5. Taken.version > version /\ Taken.version \in Nat
  BY <1>1, <1>3, <1>4, Numbers
<1>6. version' = Taken.version
  BY <1>1, <1>5, Numbers DEF ReplayedVersion
<1>7. PICK c \in Later : Taken = Step(c)
  BY <1>1, <1>3 DEF SchedulePlays
<1>8. /\ c \in Played /\ c \in Changes /\ c.settings \in Settings
      /\ c.version = version' /\ c.cycle = cycle /\ c.source = source'
      /\ c.version \in Nat /\ c.cycle \in Nat
      /\ Taken.patch = c.settings
  BY <1>1, <1>4, <1>6, <1>7, PlayedInOrder, Numbers DEF Step, Played
<1>9. settings' = c.settings
  <2>1. \A p \in Settings : \A q : Apply(q, p) = p
    BY DEF Apply, Settings
  <2> QED BY <1>1, <1>8, <2>1
<1>10. ControlPlays'
  <2>1. version' # applied'
    BY <1>1, <1>5, <1>6, Numbers
  <2> QED BY <1>1, <1>2, <1>8, <1>9, <2>1, Numbers DEF ControlPlays, InForce
<1>11. RecordPlays'
  BY <1>1, <1>2 DEF Playing, RecordPlays
<1>12. InPlace'
  <2>1. \A i \in DOMAIN schedule : schedule[i].version <= version' <=> i < next
    <3> TAKE i \in DOMAIN schedule
    <3>1. schedule[next - 1].version = version'
      BY <1>1, <1>6
    <3>0. /\ next \in Nat /\ i \in Nat /\ version' \in Nat
          /\ schedule[i].version \in Nat
      BY <1>5, <1>6, Numbers
    <3>2. CASE i < next - 1
      <4>1. schedule[i].version < schedule[next - 1].version
        BY <1>3, <3>2 DEF SchedulePlays
      <4> QED BY ONLY <3>0, <3>1, <3>2, <4>1
    <3>3. CASE i = next - 1
      BY <3>1, <3>3, Numbers
    <3>4. CASE i > next - 1
      <4>1. next - 1 < i
        BY <3>0, <3>4
      <4>2. schedule[next - 1].version < schedule[i].version
        BY <1>3, <4>1 DEF SchedulePlays
      <4> QED BY ONLY <3>0, <3>1, <3>4, <4>2
    <3> QED BY <1>3, <3>2, <3>3, <3>4, Numbers
  <2>2. \A d \in Played : d.version > version' => d.cycle >= cycle
    <3> TAKE d \in Played
    <3>1. d.version \in Nat /\ version' \in Nat
      BY <1>6, <1>5, PlayedInOrder, Numbers
    <3> QED BY <1>4, <1>5, <1>6, <3>1, Numbers
  <2> QED BY <1>1, <1>2, <2>1, <2>2 DEF InPlace
<1> QED BY <1>10, <1>11, <1>12 DEF Playing

\* The cycle reads the change that is in force, and applies it when it is new.
LEMMA PlayingTakeEffect ==
  ASSUME IInv, original \subseteq Changes, Recorded(original), original # {},
         SchedulePlays, Playing, TakeEffect
  PROVE  Playing'
<1>1. /\ pc = "plan" /\ pc' = (IF version = applied THEN "work" ELSE "record")
      /\ ~ Due /\ applied' = version /\ (version # applied => planner' = settings)
      /\ read' = [settings |-> settings, source |-> source]
      /\ UNCHANGED <<settings, version, source, cycle, schedule, next, changes, original>>
  BY DEF TakeEffect, At, control
<1>2. Played' = Played
  BY <1>1 DEF Played, Start, Later, Origin
<1>3. /\ \A i \in DOMAIN schedule : schedule[i].version <= version <=> i < next
      /\ \A d \in Played : d.version > version => d.cycle >= cycle
      /\ changes = {d \in Played : d.cycle <= cycle - 1}
  BY <1>1 DEF Playing, InPlace, RecordPlays
<1>4. PICK c \in Played : InForce(c) /\ c.cycle <= cycle /\ (version # applied <=> c.cycle = cycle)
  BY <1>1 DEF Playing, ControlPlays
<1>5. \A d \in Played : d.version \in Nat /\ d.cycle \in Nat
  BY PlayedInOrder, Numbers
<1>6. \A d \in Played : d.version > version => d.cycle > cycle
  <2> SUFFICES ASSUME NEW d \in Played, d.version > version
               PROVE  d.cycle > cycle
    OBVIOUS
  <2>1. d \in Later
    <3>1. 1 <= version /\ Start.version = 1
      BY PlayedInOrder DEF IInv, TypeOK
    <3> QED BY <3>1, Numbers DEF Played
  <2>2. PICK i \in DOMAIN schedule : schedule[i] = Step(d)
    BY <2>1 DEF SchedulePlays
  <2>3. ~ i < next /\ schedule[i].version = d.version /\ schedule[i].cycle = d.cycle
    BY <1>3, <1>5, <2>2, Numbers DEF Step
  <2>4. next \in DOMAIN schedule
    BY <2>3, Numbers
  <2>5. schedule[next].cycle > cycle
    BY <1>1, <2>4, Numbers DEF Due
  <2>6. PICK e \in Later : schedule[next] = Step(e)
    BY <2>4 DEF SchedulePlays
  <2>7. e \in Played /\ schedule[next].version = e.version /\ schedule[next].cycle = e.cycle
    BY <2>6 DEF Step, Played
  <2>8. CASE i = next
    BY <2>3, <2>5, <2>8
  <2>9. CASE i # next
    <3>1. next < i
      BY <2>3, <2>9, Numbers
    <3>2. schedule[next].version < schedule[i].version
      BY <2>4, <3>1 DEF SchedulePlays
    <3>3. e.cycle < d.cycle
      BY <2>3, <2>7, <3>2, PlayedInOrder
    <3> QED BY <1>5, <2>3, <2>5, <2>7, <3>3, Numbers
  <2> QED BY <2>8, <2>9
<1>7. CASE version = applied
  <2>1. pc' = "work"
    BY <1>1, <1>7
  <2>2. ControlPlays'
    BY <1>1, <1>2, <1>4, <2>1 DEF ControlPlays, InForce
  <2>3. InPlace'
    BY <1>1, <1>2, <1>3, <1>6, <2>1 DEF InPlace
  <2>4. \A d \in Played : d.cycle <= cycle <=> d.cycle <= cycle - 1
    <3> SUFFICES ASSUME NEW d \in Played
                 PROVE  d.cycle # cycle
      BY <1>5, Numbers
    <3>1. c.cycle < cycle /\ c.version = version
      BY <1>4, <1>5, <1>7, Numbers DEF InForce
    <3>2. CASE d.version > version
      BY <1>5, <1>6, <3>2, Numbers
    <3>3. CASE d.version < version
      <4>1. d.cycle < c.cycle
        BY <3>1, <3>3, PlayedInOrder
      <4> QED BY <1>5, <3>1, <4>1, Numbers
    <3>4. CASE d.version = version
      BY <3>1, <3>4, <1>5, PlayedInOrder, Numbers
    <3> QED BY <1>5, <3>2, <3>3, <3>4, Numbers
  <2>5. RecordPlays'
    BY <1>1, <1>2, <1>3, <2>1, <2>4 DEF RecordPlays
  <2> QED BY <2>2, <2>3, <2>5 DEF Playing
<1>8. CASE version # applied
  <2>1. pc' = "record"
    BY <1>1, <1>8
  <2>2. ControlPlays'
    BY <1>1, <1>2, <1>4, <1>8, <2>1 DEF ControlPlays, InForce
  <2>3. InPlace'
    BY <1>1, <1>2, <1>3, <1>6, <1>8, <2>1 DEF InPlace
  <2>4. RecordPlays'
    BY <1>1, <1>2, <1>3, <2>1 DEF RecordPlays
  <2> QED BY <2>2, <2>3, <2>4 DEF Playing
<1> QED BY <1>7, <1>8

\* SaveIntentChange records what the recorded run had on record for the cycle.
LEMMA PlayingSave ==
  ASSUME IInv, original \subseteq Changes, Recorded(original), original # {},
         Playing, SaveIntentChange, pc' # "over"
  PROVE  Playing'
<1>1. /\ pc = "record" /\ pc' = "work"
      /\ changes' = {c \in changes : c.version # applied} \cup {Change}
      /\ UNCHANGED <<settings, version, source, cycle, schedule, next, applied, planner, original>>
  BY DEF SaveIntentChange, At, control, loop
<1>2. Played' = Played
  BY <1>1 DEF Played, Start, Later, Origin
<1>3. /\ \A i \in DOMAIN schedule : schedule[i].version <= version <=> i < next
      /\ \A d \in Played : d.version > version => d.cycle > cycle
      /\ applied = version /\ planner = settings /\ read.source = source
      /\ changes = {d \in Played : d.cycle <= cycle - 1}
  BY <1>1 DEF Playing, InPlace, RecordPlays
<1>4. PICK c \in Played : InForce(c) /\ c.cycle = cycle
  BY <1>1 DEF Playing, ControlPlays
<1>5. ControlPlays'
  BY <1>1, <1>2, <1>4, Numbers DEF ControlPlays, InForce
<1>6. InPlace'
  BY <1>1, <1>2, <1>3 DEF InPlace
<1>7. Change = c
  <2>1. c \in Changes
    BY PlayedInOrder
  <2>2. c = [version |-> c.version, cycle |-> c.cycle, settings |-> c.settings,
             source |-> c.source]
    BY <2>1 DEF Changes
  <2> QED BY <1>3, <1>4, <2>2 DEF Change, InForce
<1>8. \A d \in Played : d.version \in Nat /\ d.cycle \in Nat
  BY PlayedInOrder, Numbers
<1>9. \A d \in Played : d.cycle = cycle => d = c
  <2> SUFFICES ASSUME NEW d \in Played, d.cycle = cycle
               PROVE  d.version = c.version
    BY PlayedInOrder
  <2>1. ~ d.version < c.version /\ ~ c.version < d.version
    BY <1>4, <1>8, PlayedInOrder
  <2> QED BY <1>8, <2>1
<1>10. \A d \in changes : d.version # applied
  <2> SUFFICES ASSUME NEW d \in changes PROVE d.version # applied
    OBVIOUS
  <2>1. d \in Played /\ d.cycle < cycle
    BY <1>3, <1>8, Numbers
  <2>2. d # c /\ c.version = applied
    BY <1>3, <1>4, <1>8, <2>1, Numbers DEF InForce
  <2> QED BY <2>1, <2>2, PlayedInOrder
<1>11. changes' = changes \cup {c}
  BY <1>1, <1>7, <1>10
<1>12. \A d : d \in changes' <=> d \in Played /\ d.cycle <= cycle
  BY <1>3, <1>4, <1>8, <1>9, <1>11, Numbers
<1>13. RecordPlays'
  BY <1>1, <1>2, <1>12 DEF RecordPlays
<1> QED BY <1>5, <1>6, <1>13 DEF Playing

\* The next cycle begins with nothing left over from the one before.
LEMMA PlayingWork ==
  ASSUME IInv, original \subseteq Changes, Recorded(original), original # {},
         Playing, Work, pc' # "over"
  PROVE  Playing'
<1>1. /\ pc = "work" /\ pc' = "plan" /\ cycle' = cycle + 1
      /\ UNCHANGED <<settings, version, source, schedule, next, read, applied, planner, changes, original>>
  BY DEF Work, At, control, loop, effect
<1>2. Played' = Played
  BY <1>1 DEF Played, Start, Later, Origin
<1>3. /\ \A i \in DOMAIN schedule : schedule[i].version <= version <=> i < next
      /\ \A d \in Played : d.version > version => d.cycle > cycle
      /\ applied = version
      /\ changes = {d \in Played : d.cycle <= cycle}
  BY <1>1 DEF Playing, InPlace, RecordPlays
<1>4. PICK c \in Played : InForce(c) /\ c.cycle <= cycle
  BY DEF Playing, ControlPlays
<1>5. \A d \in Played : d.version \in Nat /\ d.cycle \in Nat
  BY PlayedInOrder, Numbers
<1>6. c.cycle <= cycle' /\ c.cycle # cycle' /\ cycle' - 1 = cycle
  BY <1>1, <1>4, <1>5, Numbers
<1>7. ControlPlays'
  BY <1>1, <1>2, <1>3, <1>4, <1>6 DEF ControlPlays, InForce
<1>8. \A d \in Played : d.version > version => d.cycle >= cycle'
  BY <1>1, <1>3, <1>5, Numbers
<1>9. InPlace'
  BY <1>1, <1>2, <1>3, <1>8 DEF InPlace
<1>10. RecordPlays'
  BY <1>1, <1>2, <1>3, <1>6 DEF RecordPlays
<1> QED BY <1>7, <1>9, <1>10 DEF Playing

\* The replay starts with the original's first settings and nothing recorded.
LEMMA ReplayInitially == Init => ReplayInv
BY DEF Init, ReplayInv, FirstIsRecorded, Recorded

\* Operators who only look do not disturb a replay, and nor do its own steps;
\* once one asks for a change nothing is said but of its schedule.
LEMMA ReplayInductive == IInv /\ ReplayInv /\ [Next]_vars => ReplayInv'
<1> SUFFICES ASSUME IInv, ReplayInv, [Next]_vars
             PROVE  ReplayInv'
  OBVIOUS
<1>1. FirstIsRecorded' /\ Recorded(changes)'
  BY RecordedInductive
<1>2. original \subseteq Changes /\ Recorded(original) /\ Recorded(changes)
  BY Numbers DEF ReplayInv
<1>3. Recorded(original)'
  <2>1. original' = original \/ original' = changes
    BY DEF Next, Engine, Operator, Current, Find, Patch, ReadCurrent, Replay, TakeEffect,
           SaveIntentChange, Work, Unwind, StartReplay, vars
  <2> QED BY <1>2, <2>1 DEF Recorded
<1>4. ASSUME StartReplay PROVE ReplayInv'
  BY <1>1, <1>3, <1>4, PlayingStarts DEF ReplayInv, Playing
<1>5. ASSUME original' = original, original = {} PROVE ReplayInv'
  BY <1>1, <1>3, <1>5 DEF ReplayInv
<1>6. ASSUME original # {}, UNCHANGED <<original, schedule>>,
             ~meddled' => NobodyAsks' /\ (pc' # "over" => Playing')
      PROVE  ReplayInv'
  <2>1. SchedulePlays'
    BY <1>6 DEF ReplayInv, SchedulePlays, Later, Origin
  <2> QED BY <1>1, <1>3, <1>6, <2>1 DEF ReplayInv, Playing
<1>7. ASSUME original # {}, ~meddled
      PROVE  NobodyAsks /\ (pc # "over" => Playing /\ SchedulePlays)
  BY <1>7 DEF ReplayInv, Playing
<1>8. ASSUME NEW o \in Operators, Operator(o), original # {} PROVE ReplayInv'
  <2>1. UNCHANGED <<original, schedule>>
    BY <1>8 DEF Operator, Current, Find, Patch, loop
  <2>2. ASSUME ~meddled' PROVE NobodyAsks' /\ (pc' # "over" => Playing')
    <3>1. ~meddled
      BY <1>8, <2>2 DEF Operator, Current, Find, Patch
    <3>2. request[o] = NoRequest
      BY <1>7, <1>8, <3>1 DEF NobodyAsks
    <3>3. UNCHANGED <<control, request, pc, cycle, loop, effect, original>>
      BY <1>8, <2>2, <3>2 DEF Operator, Current, Find, Patch
    <3>4. NobodyAsks' /\ pc' = pc
      BY <1>7, <1>8, <3>1, <3>3 DEF NobodyAsks
    <3> QED BY <1>7, <1>8, <3>1, <3>3, <3>4, PlayingStays
  <2> QED BY <1>6, <1>8, <2>1, <2>2
<1>9. ASSUME Engine, original # {} PROVE ReplayInv'
  <2>1. UNCHANGED <<original, request, meddled, schedule>>
    BY <1>9 DEF Engine, ReadCurrent, Replay, TakeEffect, SaveIntentChange, Work, Unwind,
                people, loop
  <2>2. ASSUME ~meddled', pc' # "over" PROVE Playing'
    <3>1. pc # "over"
      BY <1>9, <2>2 DEF Engine, ReadCurrent, Replay, TakeEffect, SaveIntentChange, Work,
                        Unwind, At
    <3>2. Playing /\ SchedulePlays
      BY <1>7, <1>9, <2>1, <2>2, <3>1
    <3>3. CASE ReadCurrent
      BY <1>2, <1>9, <2>2, <3>2, <3>3, PlayingReadCurrent
    <3>4. CASE Replay
      BY <1>2, <1>9, <3>2, <3>4, PlayingReplay
    <3>5. CASE TakeEffect
      BY <1>2, <1>9, <3>2, <3>5, PlayingTakeEffect
    <3>6. CASE SaveIntentChange
      BY <1>2, <1>9, <2>2, <3>2, <3>6, PlayingSave
    <3>7. CASE Work
      BY <1>2, <1>9, <2>2, <3>2, <3>7, PlayingWork
    <3>8. CASE Unwind
      BY <3>1, <3>8 DEF Unwind
    <3> QED BY <1>9, <3>3, <3>4, <3>5, <3>6, <3>7, <3>8 DEF Engine
  <2>3. ~meddled' => NobodyAsks'
    BY <1>7, <1>9, <2>1 DEF NobodyAsks
  <2> QED BY <1>6, <1>9, <2>1, <2>2, <2>3
<1>10. ASSUME UNCHANGED vars, original # {} PROVE ReplayInv'
  <2>1. /\ UNCHANGED <<control, request, meddled, pc, cycle, loop, effect, original>>
        /\ UNCHANGED <<original, schedule>> /\ pc' = pc
    BY <1>10 DEF vars, people, loop
  <2>2. ~meddled' => NobodyAsks'
    BY <1>7, <1>10, <2>1 DEF NobodyAsks
  <2> QED BY <1>6, <1>7, <1>10, <2>1, <2>2, PlayingStays
<1>11. original' = original \/ StartReplay
  BY DEF Next, Engine, Operator, Current, Find, Patch, ReadCurrent, Replay, TakeEffect,
         SaveIntentChange, Work, Unwind, vars
<1> QED BY <1>4, <1>5, <1>8, <1>9, <1>10, <1>11 DEF Next

\* Whatever was planned and whatever operators did, a replay of what a run
\* recorded, which no operator changes in its turn, works under the same settings
\* in the same cycles, and from its second cycle on records them as they were
\* recorded (createRun of a replay, Control.Replay, applyIntent).
THEOREM ReplayIsFaithful == Spec => []ReplayActsTheSame
<1>1. IInv /\ ReplayInv => ReplayActsTheSame
  <2> SUFFICES ASSUME IInv, ReplayInv, original # {}, ~meddled, pc = "work"
               PROVE  LET past == {c \in original : c.cycle <= cycle}
                      IN /\ {<<c.cycle, c.settings>> : c \in changes}
                              = {<<c.cycle, c.settings>> : c \in past}
                         /\ {c \in changes : c.cycle > 1} = {c \in past : c.cycle > 1}
    BY DEF ReplayActsTheSame
  <2>1. original \subseteq Changes /\ Recorded(original)
    BY Numbers DEF ReplayInv
  <2>2. changes = {c \in Played : c.cycle <= cycle}
    BY DEF ReplayInv, RecordPlays
  <2>3. /\ Origin \in original /\ Origin.cycle = 1
        /\ Start \in Played /\ Start.cycle = 1 /\ Start.settings = Origin.settings
    BY <2>1, PlayedInOrder
  <2>4. \A c : c \in Played <=> c = Start \/ (c \in original /\ c # Origin)
    BY DEF Played, Later
  <2>5. PICK past : past = {c \in original : c.cycle <= cycle}
    OBVIOUS
  <2>6. {c \in changes : c.cycle > 1} = {c \in past : c.cycle > 1}
    BY <2>2, <2>3, <2>4, <2>5
  <2>7. \A c \in changes : \E d \in past : d.cycle = c.cycle /\ d.settings = c.settings
    BY <2>2, <2>3, <2>4, <2>5
  <2>8. \A c \in past : \E d \in changes : d.cycle = c.cycle /\ d.settings = c.settings
    BY <2>2, <2>3, <2>4, <2>5
  <2>9. {<<c.cycle, c.settings>> : c \in changes} = {<<c.cycle, c.settings>> : c \in past}
    BY ONLY <2>7, <2>8
  <2> QED BY <2>5, <2>6, <2>9
<1>2. Spec => []ReplayInv
  <2>1. IInv /\ ReplayInv /\ [Next]_vars => ReplayInv'
    BY ReplayInductive
  <2> QED BY ReplayInitially, Invariant, <2>1, PTL DEF Spec
<1> QED BY Invariant, <1>1, <1>2, PTL
-----------------------------------------------------------------------------
(* When a change takes effect.                                              *)

\* Once version v is there in cycle c, it stays, and later cycles apply it.
TakenUp(v, c) ==
  \/ original # {}
  \/ /\ version >= v /\ cycle >= c
     /\ cycle > c /\ pc \in {"record", "work"} => applied >= v

\* A change followed from its acceptance stays followed.
LEMMA TakenUpStays ==
  ASSUME NEW v \in Nat, NEW c \in Nat, IInv, TakenUp(v, c), [Next]_vars
  PROVE  TakenUp(v, c)'
<1> USE DEF TakenUp, control, people, loop, effect
<1>1. version \in Nat /\ cycle \in Nat /\ applied \in Nat
  BY Numbers
<1>2. ASSUME NEW o \in Operators, Operator(o) PROVE TakenUp(v, c)'
  BY <1>1, <1>2 DEF Operator, Current, Find, Patch
<1>3. ASSUME ReadCurrent \/ SaveIntentChange \/ Work \/ Unwind PROVE TakenUp(v, c)'
  BY <1>1, <1>3 DEF ReadCurrent, SaveIntentChange, Work, Unwind, At
<1>4. ASSUME Replay PROVE TakenUp(v, c)'
  <2>1. Taken \in Steps
    BY <1>4 DEF IInv, LocalsOK, Replay, At, Taken
  <2>2. version' \in Nat /\ version <= version'
    BY <1>1, <1>4, <2>1 DEF Replay, ReplayedVersion, Steps
  <2> QED BY <1>1, <1>4, <2>2 DEF Replay, At
<1>5. ASSUME TakeEffect PROVE TakenUp(v, c)'
  BY <1>1, <1>5 DEF TakeEffect, At
<1>6. ASSUME StartReplay PROVE TakenUp(v, c)'
  BY <1>6 DEF StartReplay
<1>7. CASE UNCHANGED vars
  BY <1>7 DEF vars
<1> QED BY <1>2, <1>3, <1>4, <1>5, <1>6, <1>7 DEF Next, Engine

\* Every cycle that begins after a change was accepted works under it or under
\* a later one, however long the run and however many changes (Control.Patch,
\* applyIntent).
THEOREM ChangesAreTakenUp == Spec => ChangesTakeEffect
<1>1. ASSUME NEW v \in 2 .. 1 + MaxEdits, NEW c \in 1 .. MaxCycle - 1
      PROVE  Spec => [](version >= v /\ cycle = c =>
                [](original = {} /\ cycle > c /\ pc = "work" => applied >= v))
  <2>1. v \in Nat /\ c \in Nat
    BY IntentAssumption
  <2>2. IInv /\ TakenUp(v, c) /\ [Next]_vars => TakenUp(v, c)'
    BY <2>1, TakenUpStays
  <2>3. IInv /\ version >= v /\ cycle = c => TakenUp(v, c)
    BY <2>1, Numbers DEF TakenUp
  <2>4. TakenUp(v, c) => (original = {} /\ cycle > c /\ pc = "work" => applied >= v)
    BY DEF TakenUp
  <2> QED BY <2>2, <2>3, <2>4, Invariant, PTL DEF Spec
<1> QED BY <1>1 DEF ChangesTakeEffect
-----------------------------------------------------------------------------
(* A schedule applies.  What it is checked with is a function defined by    *)
(* recursion on the steps; the engine goes through the same settings one    *)
(* step after the other, as long as nobody else changes them.               *)

\* The settings after so many steps, as Validate computes them.
After(s, steps) ==
  CHOOSE f : f = [i \in 0 .. Len(steps) |->
                    IF i = 0 THEN s ELSE Apply(f[i - 1], steps[i].patch)]

\* There is such a function: the least length without one cannot be.
LEMMA AfterExists ==
  ASSUME NEW s, NEW steps, NEW n \in Nat
  PROVE  \E f : f = [i \in 0 .. n |-> IF i = 0 THEN s ELSE Apply(f[i - 1], steps[i].patch)]
<1> DEFINE Has(m) == \E f : f = [i \in 0 .. m |->
                          IF i = 0 THEN s ELSE Apply(f[i - 1], steps[i].patch)]
           Bad    == {m \in Nat : ~Has(m)}
<1>1. Has(0)
  <2>1. PICK f : f = [i \in 0 .. 0 |-> s]
    OBVIOUS
  <2>2. f = [i \in 0 .. 0 |-> IF i = 0 THEN s ELSE Apply(f[i - 1], steps[i].patch)]
    BY <2>1
  <2> QED BY <2>2
<1>2. ASSUME NEW m \in Nat, Has(m) PROVE Has(m + 1)
  <2>1. PICK f : f = [i \in 0 .. m |-> IF i = 0 THEN s ELSE Apply(f[i - 1], steps[i].patch)]
    BY <1>2
  <2>2. PICK g : g = [i \in 0 .. (m + 1) |->
                        IF i = m + 1 THEN Apply(f[m], steps[m + 1].patch) ELSE f[i]]
    OBVIOUS
  <2>3. ASSUME NEW i \in 0 .. (m + 1)
        PROVE  g[i] = IF i = 0 THEN s ELSE Apply(g[i - 1], steps[i].patch)
    <3>1. CASE i = 0
      BY <2>1, <2>2, <3>1
    <3>2. CASE i = m + 1
      <4>1. g[i] = Apply(f[m], steps[m + 1].patch) /\ g[i - 1] = f[m]
        BY <2>2, <3>2
      <4> QED BY <3>2, <4>1
    <3>3. CASE i # 0 /\ i # m + 1
      <4>1. i \in 0 .. m /\ i - 1 \in 0 .. m
        BY <3>3
      <4>2. g[i] = f[i] /\ g[i - 1] = f[i - 1] /\ f[i] = Apply(f[i - 1], steps[i].patch)
        BY <2>1, <2>2, <3>3, <4>1
      <4> QED BY <3>3, <4>2
    <3> QED BY <3>1, <3>2, <3>3
  <2>4. g = [i \in 0 .. (m + 1) |-> g[i]]
    BY <2>2
  <2>5. g = [i \in 0 .. (m + 1) |-> IF i = 0 THEN s ELSE Apply(g[i - 1], steps[i].patch)]
    BY <2>3, <2>4
  <2> QED BY <2>5
<1> HIDE DEF Has
<1>3. Bad = {}
  <2> SUFFICES ASSUME Bad # {} PROVE FALSE
    OBVIOUS
  <2>1. PICK m \in Bad : \A k \in Bad : ~ (<<k, m>> \in OpToRel(<, Nat))
    <3>1. Bad \subseteq Nat
      OBVIOUS
    <3> HIDE DEF Bad
    <3> QED BY <3>1, NatLessThanWellFounded, WFMin
  <2>2. m \in Nat /\ ~ Has(m) /\ m # 0
    BY <1>1
  <2>3. m - 1 \in Nat /\ Has(m - 1)
    <3>1. m - 1 \in Nat /\ m - 1 < m
      BY <2>2
    <3>2. <<m - 1, m>> \in OpToRel(<, Nat)
      BY <2>2, <3>1 DEF OpToRel
    <3> QED BY <2>1, <3>1, <3>2
  <2>4. Has((m - 1) + 1)
    BY <1>2, <2>3
  <2> QED BY <2>2, <2>4
<1> QED BY <1>3 DEF Has

\* Settings after each planned step, from those before it.
LEMMA AfterIs ==
  ASSUME NEW s, NEW steps, Len(steps) \in Nat
  PROVE  /\ After(s, steps)[0] = s
         /\ \A i \in 1 .. Len(steps) :
              After(s, steps)[i] = Apply(After(s, steps)[i - 1], steps[i].patch)
<1>1. After(s, steps) = [i \in 0 .. Len(steps) |->
         IF i = 0 THEN s ELSE Apply(After(s, steps)[i - 1], steps[i].patch)]
  BY AfterExists DEF After
<1> QED BY <1>1

\* What Validate checked of the schedule a run is created with.
LEMMA PlannedApplies ==
  \A i \in 0 .. Len(Planned) : Valid(After(Initial, Planned)[i])
BY IntentAssumption DEF ValidFrom, After

\* While only the schedule changes the settings, they are those it was checked
\* with; and what is recorded is valid as it stands.
OnSchedule ==
  /\ \A c \in original : Valid(c.settings)
  /\ original = {} /\ edits = 0 =>
       /\ schedule = Planned
       /\ \A o \in Operators : request[o] = NoRequest
       /\ pc \in {"plan", "record", "work"} => settings = After(Initial, Planned)[next - 1]
       /\ pc = "replay" => next >= 2 /\ read.settings = After(Initial, Planned)[next - 2]

\* A run starts on its schedule.
LEMMA OnScheduleInitially == Init => OnSchedule
<1> SUFFICES ASSUME Init PROVE OnSchedule
  OBVIOUS
<1>1. Len(Planned) \in Nat
  BY IntentAssumption
<1>2. After(Initial, Planned)[0] = Initial
  BY <1>1, AfterIs
<1> QED BY <1>2 DEF Init, OnSchedule

\* It stays on it, unless an operator interferes.
LEMMA OnScheduleStays == IInv /\ ReplayInv /\ OnSchedule /\ [Next]_vars => OnSchedule'
<1> SUFFICES ASSUME IInv, ReplayInv, OnSchedule, [Next]_vars PROVE OnSchedule'
  OBVIOUS
<1> USE DEF control, people, loop, effect
<1>1. edits \in Nat /\ next \in Nat /\ next >= 1 /\ Len(schedule) \in Nat
  BY Numbers, IntentAssumption DEF IInv, TypeOK
<1>2. \A c \in original' : Valid(c.settings)
  <2>1. original' = original \/ original' = changes
    BY DEF Next, Engine, Operator, Current, Find, Patch, ReadCurrent, Replay, TakeEffect,
           SaveIntentChange, Work, Unwind, StartReplay, vars
  <2>2. \A c \in changes : Valid(c.settings)
    BY DEF IInv, LocalsOK
  <2> QED BY <2>1, <2>2 DEF OnSchedule
<1>3. (\A c \in original : Valid(c.settings))' <=> \A c \in original' : Valid(c.settings)
  BY DEF Valid
<1>4. CASE StartReplay
  BY <1>2, <1>3, <1>4 DEF StartReplay, OnSchedule
<1>5. CASE original' # {} \/ edits' # 0
  BY <1>2, <1>3, <1>5 DEF OnSchedule
<1>6. ASSUME original' = {}, edits' = 0, original = {}, edits = 0
      PROVE  OnSchedule'
  <2>1. /\ schedule = Planned
        /\ \A o \in Operators : request[o] = NoRequest
        /\ pc \in {"plan", "record", "work"} => settings = After(Initial, Planned)[next - 1]
        /\ pc = "replay" => next >= 2 /\ read.settings = After(Initial, Planned)[next - 2]
    BY <1>6 DEF OnSchedule
  <2>2. ASSUME UNCHANGED <<schedule, request, settings, next>>, pc' # "replay",
               pc \in {"plan", "record", "work"} \/ pc' = "over"
        PROVE  OnSchedule'
    BY <1>2, <1>3, <1>6, <2>1, <2>2 DEF OnSchedule
  <2>3. ASSUME NEW o \in Operators, Operator(o) PROVE OnSchedule'
    <3>1. UNCHANGED <<schedule, request, settings, next, pc, read>>
      BY <1>1, <1>6, <2>1, <2>3 DEF Operator, Current, Find, Patch
    <3> QED BY <1>2, <1>3, <1>6, <2>1, <3>1 DEF OnSchedule
  <2>4. CASE TakeEffect \/ SaveIntentChange \/ Work \/ Unwind
    BY <2>2, <2>4 DEF TakeEffect, SaveIntentChange, Work, Unwind, At
  <2>5. CASE ReadCurrent
    <3>1. /\ UNCHANGED <<schedule, request>> /\ pc = "plan" /\ pc' \in {"replay", "over"}
          /\ next' = next + 1 /\ read'.settings = settings
      BY <2>5 DEF ReadCurrent, At, IInv, LocalsOK
    <3>2. next' >= 2 /\ next' - 2 = next - 1
      BY <1>1, <3>1
    <3> QED BY <1>2, <1>3, <1>6, <2>1, <3>1, <3>2 DEF OnSchedule
  <2>6. CASE Replay
    <3>1. /\ UNCHANGED <<schedule, request, next>> /\ pc = "replay" /\ pc' = "plan"
          /\ settings' = Apply(read.settings, schedule[next - 1].patch)
      BY <2>6 DEF Replay, At, Taken
    <3>2. next - 1 \in 1 .. Len(Planned) /\ (next - 1) - 1 = next - 2
      BY <1>1, <2>1, <3>1 DEF IInv, LocalsOK
    <3>3. After(Initial, Planned)[next - 1]
            = Apply(After(Initial, Planned)[next - 2], Planned[next - 1].patch)
      BY <1>1, <2>1, <3>2, AfterIs
    <3> QED BY <1>2, <1>3, <1>6, <2>1, <3>1, <3>3 DEF OnSchedule
  <2>7. CASE UNCHANGED vars
    BY <1>2, <1>3, <1>6, <2>1, <2>7 DEF OnSchedule, vars
  <2> QED BY <1>4, <2>3, <2>4, <2>5, <2>6, <2>7 DEF Next, Engine
<1>7. original' = {} /\ edits' = 0 => StartReplay \/ (original = {} /\ edits = 0)
  BY <1>1 DEF Next, Engine, Operator, Current, Find, Patch, ReadCurrent, Replay, TakeEffect,
         SaveIntentChange, Work, Unwind, vars
<1> QED BY <1>4, <1>5, <1>6, <1>7

\* A schedule of any length that was checked when the run was created applies
\* step by step, and so does any that a replay is given, unless an operator
\* changed what it applies to (RunIntent.Validate, applyIntent).
THEOREM SchedulesApply == Spec => ScheduleApplies
<1>1. ASSUME IInv, ReplayInv, OnSchedule, Next, pc = "plan", pc' = "over"
      PROVE  edits > 0 /\ original = {}
  <2>1. ReadCurrent
    BY <1>1 DEF Next, Engine, Operator, Current, Find, Patch, ReadCurrent, Replay, TakeEffect,
                SaveIntentChange, Work, Unwind, StartReplay, At
  <2>2. ~ Valid(Apply(settings, schedule[next].patch)) /\ next <= Len(schedule)
    BY <1>1, <2>1 DEF ReadCurrent, At, Due
  <2>3. next \in DOMAIN schedule /\ Len(schedule) \in Nat /\ next \in Nat /\ next >= 1
    BY <1>1, <2>2, Numbers
  <2>4. original = {}
    <3> SUFFICES ASSUME original # {} PROVE FALSE
      OBVIOUS
    <3>1. PICK c \in Later : schedule[next] = Step(c)
      BY <1>1, <2>3 DEF ReplayInv, SchedulePlays
    <3>2. c \in original /\ c.settings \in Settings /\ Valid(c.settings)
      BY <1>1, <3>1, Numbers DEF Later, OnSchedule
    <3>3. Apply(settings, schedule[next].patch) = c.settings
      BY <3>1, <3>2 DEF Step, Apply, Settings
    <3> QED BY <2>2, <3>2, <3>3
  <2>5. edits # 0
    <3> SUFFICES ASSUME edits = 0 PROVE FALSE
      OBVIOUS
    <3>1. schedule = Planned /\ settings = After(Initial, Planned)[next - 1]
      BY <1>1, <2>4 DEF OnSchedule
    <3>2. After(Initial, Planned)[next]
            = Apply(After(Initial, Planned)[next - 1], Planned[next].patch)
      BY <2>3, <3>1, AfterIs, Numbers, <1>1
    <3>3. Valid(After(Initial, Planned)[next])
      BY <2>2, <2>3, <3>1, PlannedApplies
    <3> QED BY <2>2, <3>1, <3>2, <3>3
  <2> QED BY <1>1, <2>4, <2>5, IntentAssumption DEF IInv, TypeOK
<1>2. ASSUME IInv, ReplayInv, OnSchedule, [Next]_vars
      PROVE  [pc = "plan" /\ pc' = "over" => edits > 0 /\ original = {}]_vars
  BY <1>1, <1>2
<1>3. Spec => [](ReplayInv /\ OnSchedule)
  <2>1. IInv /\ ReplayInv /\ OnSchedule /\ [Next]_vars => (ReplayInv /\ OnSchedule)'
    BY ReplayInductive, OnScheduleStays
  <2> QED BY ReplayInitially, OnScheduleInitially, Invariant, <2>1, PTL DEF Spec
<1> QED BY Invariant, <1>2, <1>3, PTL DEF Spec, ScheduleApplies
=============================================================================
