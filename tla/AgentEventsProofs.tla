------------------------- MODULE AgentEventsProofs -------------------------
(***************************************************************************)
(* Proofs about the agent's events endpoint (AgentEvents), for any device *)
(* names and listeners, any bound on the posts and any number of mount    *)
(* attempts.                                                              *)
(***************************************************************************)
EXTENDS AgentEvents, SequenceTheorems, TLAPS

USE AgentEventsAssumption

LEMMA MountAttemptsPositive == 0 < MountAttempts
  OBVIOUS

-----------------------------------------------------------------------------
(* Type correctness.                                                       *)

\* TypeOK with the bound of the mount loop: a goroutine still mounting has
\* an attempt left, so the next one keeps tries within 0..MountAttempts.
TInv ==
    /\ TypeOK
    /\ \A i \in DOMAIN procs : procs[i].pc = "filter" => procs[i].tries = 0
    /\ \A i \in DOMAIN procs : procs[i].pc = "mount" => procs[i].tries < MountAttempts

LEMMA TInvInit == Init => TInv
<1> SUFFICES ASSUME Init PROVE TInv
  OBVIOUS
<1>1. <<>> \in Seq(Event) /\ <<>> \in Seq({200, 500}) /\ <<>> \in Seq(Proc)
  BY EmptySeq
<1>2. DOMAIN procs = {}
  <2>1. procs = <<>> /\ Len(<<>>) = 0 /\ DOMAIN procs = 1..Len(procs)
    BY <1>1, EmptySeq, LenProperties DEF Init
  <2>2. QED
    BY <2>1
<1>3. QED
  BY <1>1, <1>2 DEF Init, TInv, TypeOK, RequestedTypes

\* Each entry of the goroutine sequence is a goroutine.
LEMMA ProcAt ==
    ASSUME NEW ps \in Seq(Proc), NEW i \in DOMAIN ps
    PROVE  ps[i] \in Proc
  BY LenProperties

\* The paths of the events, and their absolute forms, are paths.
LEMMA AbsPathType ==
    ASSUME NEW p \in Paths
    PROVE  p \in Path /\ AbsPath(p) \in Path
<1> DEFINE C == {"run", "lxd_agent", "mnt", ".."}
<1>1. <<>> \in Seq(C)
  BY EmptySeq
<1>2. <<"mnt">> \in Seq(C)
  <2>1. <<"mnt">> = [i \in 1..1 |-> "mnt"]
    OBVIOUS
  <2>2. QED
    BY <2>1, IsASeq
<1>3. <<"..", "mnt">> \in Seq(C)
  <2>1. <<"..", "mnt">> = [i \in 1..2 |-> IF i = 1 THEN ".." ELSE "mnt"]
    OBVIOUS
  <2>2. QED
    BY <2>1, IsASeq
<1>4. Cwd \in Seq(C)
  <2>1. Cwd = [i \in 1..2 |-> IF i = 1 THEN "run" ELSE "lxd_agent"]
    BY DEF Cwd
  <2>2. QED
    BY <2>1, IsASeq
<1>5. PICK a \in BOOLEAN, c \in {<<>>, <<"mnt">>, <<"..", "mnt">>} :
           p = [abs |-> a, comps |-> c]
  BY DEF Paths
<1>6a. p.comps \in Seq(C) /\ p.abs \in BOOLEAN /\ p \in Path
  BY <1>1, <1>2, <1>3, <1>5 DEF Path
<1>6. Cwd \o p.comps \in Seq(C)
  BY <1>4, <1>6a, ConcatProperties
<1>7. QED
  BY <1>6a, <1>6 DEF AbsPath, Path

\* A changed entry of a sequence of goroutines keeps it one.
LEMMA ProcsExcept ==
    ASSUME NEW ps \in Seq(Proc), NEW i \in DOMAIN ps, NEW q \in Proc
    PROVE  /\ [ps EXCEPT ![i] = q] \in Seq(Proc)
           /\ DOMAIN [ps EXCEPT ![i] = q] = DOMAIN ps
           /\ \A j \in DOMAIN ps : [ps EXCEPT ![i] = q][j] = IF j = i THEN q ELSE ps[j]
  BY ExceptSeq, LenProperties

LEMMA TInvStep == TInv /\ [Next]_vars => TInv'
<1> SUFFICES ASSUME TInv, [Next]_vars PROVE TInv'
  OBVIOUS
<1>0. /\ procs \in Seq(Proc) /\ sent \in Seq(Event) /\ resp \in Seq({200, 500})
      /\ DOMAIN procs = 1..Len(procs) /\ Len(sent) \in Nat
  BY LenProperties DEF TInv, TypeOK
<1>1. ASSUME NEW l \in Listeners, NEW t \in RequestedTypes, Subscribe(l, t) PROVE TInv'
  BY <1>1, <1>0 DEF Subscribe, TInv, TypeOK
<1>2. ASSUME NEW l \in Listeners, Disconnect(l) PROVE TInv'
  BY <1>2 DEF Disconnect, TInv, TypeOK
<1>3. CASE PostUndecodable
  BY <1>3, <1>0, AppendProperties DEF PostUndecodable, TInv, TypeOK
<1>4. ASSUME NEW e \in Event, Post(e) PROVE TInv'
  <2> DEFINE q == [ev |-> e, pc |-> "filter", target |-> EmptyPath,
                   tries |-> 0, outcome |-> "none"]
  <2>1. q \in Proc
    BY MountAttemptsPositive DEF Proc, EmptyPath, Path
  <2>2. /\ procs' = Append(procs, q) /\ procs' \in Seq(Proc)
        /\ DOMAIN procs' = 1..Len(procs) + 1
        /\ \A i \in 1..Len(procs) : procs'[i] = procs[i]
        /\ procs'[Len(procs) + 1] = q
    BY <1>4, <1>0, <2>1, AppendProperties, LenProperties DEF Post
  <2>3. sent' \in Seq(Event) /\ resp' \in Seq({200, 500})
    BY <1>4, <1>0, AppendProperties DEF Post
  <2>4. lqueue' \in [Listeners -> Seq(Event)]
    BY <1>4, AppendProperties DEF Post, TInv, TypeOK
  <2>5. TypeOK'
    BY <1>4, <2>2, <2>3, <2>4 DEF Post, TInv, TypeOK
  <2>6. \A i \in DOMAIN procs' :
           /\ procs'[i].pc = "filter" => procs'[i].tries = 0
           /\ procs'[i].pc = "mount" => procs'[i].tries < MountAttempts
    BY <1>0, <2>2 DEF TInv
  <2>7. QED
    BY <2>5, <2>6 DEF TInv
<1>5. ASSUME NEW i \in DOMAIN procs, NEW q \in Proc,
             procs' = [procs EXCEPT ![i] = q],
             q.pc = "filter" => q.tries = 0,
             q.pc = "mount" => q.tries < MountAttempts,
             dirs' \subseteq Path, mounts' \subseteq [proc : Nat, source : Source, target : Path],
             UNCHANGED <<sent, resp, ready, lstate, lreq, lsince, lqueue>>
      PROVE TInv'
  <2>1. /\ procs' \in Seq(Proc) /\ DOMAIN procs' = DOMAIN procs
        /\ \A j \in DOMAIN procs : procs'[j] = IF j = i THEN q ELSE procs[j]
    BY <1>5, <1>0, ProcsExcept
  <2>2. QED
    BY <1>5, <2>1 DEF TInv, TypeOK
<1>6. ASSUME NEW i \in DOMAIN procs, Filter(i) PROVE TInv'
  <2> DEFINE p == procs[i]
  <2>1. p \in Proc /\ p.pc = "filter" /\ p.ev \in Event
    BY <1>6, <1>0, ProcAt DEF Filter, Proc
  <2>2. p.ev.path \in Paths
    BY <2>1 DEF Event
  <2>3. CASE IsHotplug(p.ev)
    <3> DEFINE q == [p EXCEPT !.pc = "mount", !.target = AbsPath(p.ev.path)]
    <3>1. AbsPath(p.ev.path) \in Path
      BY <2>2, AbsPathType
    <3>2. q \in Proc /\ procs' = [procs EXCEPT ![i] = q]
      BY <1>6, <2>1, <2>3, <3>1 DEF Filter, Proc
    <3>3. q.pc = "mount" /\ q.tries = 0
      BY <2>1, <1>0, <1>6 DEF TInv
    <3>4. dirs' \subseteq Path
      BY <1>6, <2>3, <3>1 DEF Filter, TInv, TypeOK
    <3>5. QED
      BY <1>5, <1>6, <3>2, <3>3, <3>4, MountAttemptsPositive DEF Filter, TInv, TypeOK
  <2>4. CASE ~IsHotplug(p.ev)
    <3> DEFINE q == [p EXCEPT !.pc = "done", !.outcome = "skipped"]
    <3>1. q \in Proc /\ procs' = [procs EXCEPT ![i] = q]
      BY <1>6, <2>1, <2>4 DEF Filter, Proc
    <3>2. QED
      BY <1>5, <1>6, <2>4, <3>1 DEF Filter, TInv, TypeOK
  <2>5. QED
    BY <2>3, <2>4
<1>7. ASSUME NEW i \in DOMAIN procs, MountTry(i) PROVE TInv'
  <2> DEFINE p == procs[i]
  <2>1. p \in Proc /\ p.pc = "mount" /\ p.tries < MountAttempts
    BY <1>7, <1>0, ProcAt DEF MountTry, TInv
  <2>2. CASE MountSource(p.ev) \in ready
    <3> DEFINE q == [p EXCEPT !.pc = "done", !.outcome = "mounted", !.tries = p.tries + 1]
    <3>1. q \in Proc /\ procs' = [procs EXCEPT ![i] = q]
      BY <1>7, <2>1, <2>2 DEF MountTry, Proc
    <3>2. MountSource(p.ev) \in Source /\ p.target \in Path
      BY <2>1 DEF MountSource, Source, Proc, Event
    <3>3. mounts' \subseteq [proc : Nat, source : Source, target : Path]
      BY <1>7, <1>0, <2>2, <3>2 DEF MountTry, TInv, TypeOK
    <3>4. QED
      BY <1>5, <1>7, <2>2, <3>1, <3>3 DEF MountTry, TInv, TypeOK
  <2>3. CASE MountSource(p.ev) \notin ready
    <3> DEFINE q == [p EXCEPT !.tries = p.tries + 1,
                              !.pc = IF p.tries + 1 = MountAttempts THEN "done" ELSE "mount",
                              !.outcome = IF p.tries + 1 = MountAttempts THEN "failed" ELSE "none"]
    <3>1. q \in Proc /\ procs' = [procs EXCEPT ![i] = q]
      BY <1>7, <2>1, <2>3 DEF MountTry, Proc
    <3>2. q.pc # "filter" /\ (q.pc = "mount" => q.tries < MountAttempts)
      BY <2>1 DEF Proc
    <3>3. QED
      BY <1>5, <1>7, <2>3, <3>1, <3>2 DEF MountTry, TInv, TypeOK
  <2>4. QED
    BY <2>2, <2>3
<1>8. ASSUME NEW src \in Source, ShareReady(src) PROVE TInv'
  BY <1>8 DEF ShareReady, TInv, TypeOK
<1>9. CASE UNCHANGED vars
  BY <1>9 DEF vars, TInv, TypeOK
<1>10. QED
  BY <1>1, <1>2, <1>3, <1>4, <1>6, <1>7, <1>8, <1>9 DEF Next, Goroutine

\* Every step keeps the sent events, the answers, the goroutines, the
\* mounts and the listeners in their types.
THEOREM TypeCorrect == Spec => []TypeOK
<1>1. TInv => TypeOK
  BY DEF TInv
<1>2. QED
  BY <1>1, TInvInit, TInvStep, PTL DEF Spec


-----------------------------------------------------------------------------
(* The mounts.                                                             *)

\* What the mounts owe to the goroutines that made them: each was made by
\* a goroutine that has returned "mounted" on a hot-plug event, from that
\* event's share onto a directory MkdirAll created, and by no other mount.
MountsInv ==
    \A m \in mounts :
        /\ m.proc \in DOMAIN procs
        /\ procs[m.proc].pc = "done" /\ procs[m.proc].outcome = "mounted"
        /\ IsHotplug(procs[m.proc].ev)
        /\ m.source = MountSource(procs[m.proc].ev)
        /\ m.target \in dirs
        /\ \A m2 \in mounts : m2.proc = m.proc => m2 = m

\* A goroutine in the mount loop passed the filter and created its target.
MountingInv ==
    \A i \in DOMAIN procs :
        procs[i].pc = "mount" => IsHotplug(procs[i].ev) /\ procs[i].target \in dirs

IInv == TInv /\ MountsInv /\ MountingInv

LEMMA IInvInit == Init => IInv
<1> SUFFICES ASSUME Init PROVE IInv
  OBVIOUS
<1>1. DOMAIN procs = {}
  <2>1. procs = <<>> /\ <<>> \in Seq(Proc) /\ Len(<<>>) = 0
    BY EmptySeq DEF Init
  <2>2. QED
    BY <2>1, LenProperties
<1>2. QED
  BY <1>1, TInvInit DEF Init, IInv, MountsInv, MountingInv

\* The actions that leave the goroutines, the mounts and the directories
\* alone keep the mount facts.
LEMMA MountFactsFrame ==
    ASSUME MountsInv, MountingInv, UNCHANGED <<procs, mounts, dirs>>
    PROVE  MountsInv' /\ MountingInv'
  BY DEF MountsInv, MountingInv

\* The host posts an event: the goroutines started before keep their
\* indices, and the new one starts at the filter.
LEMMA PostKeepsIInv ==
    ASSUME IInv, NEW e \in Event, Post(e)
    PROVE  MountsInv' /\ MountingInv'
<1> DEFINE q == [ev |-> e, pc |-> "filter", target |-> EmptyPath,
                 tries |-> 0, outcome |-> "none"]
<1>1. /\ procs \in Seq(Proc) /\ sent \in Seq(Event)
      /\ lqueue \in [Listeners -> Seq(Event)] /\ lsince \in [Listeners -> Nat]
      /\ lstate \in [Listeners -> {"none", "listening", "closed"}]
  BY DEF IInv, TInv, TypeOK
<1>2. /\ procs' = Append(procs, q)
      /\ DOMAIN procs' = 1..Len(procs) + 1 /\ DOMAIN procs = 1..Len(procs)
      /\ \A j \in DOMAIN procs : procs'[j] = procs[j]
      /\ procs'[Len(procs) + 1] = q
  BY <1>1, AppendProperties, LenProperties DEF Post
<1>3. MountsInv'
  BY <1>2 DEF Post, IInv, MountsInv
<1>4. MountingInv'
  <2> SUFFICES ASSUME NEW j \in DOMAIN procs', procs'[j].pc = "mount"
               PROVE  IsHotplug(procs'[j].ev) /\ procs'[j].target \in dirs'
    BY DEF MountingInv
  <2>1. j \in DOMAIN procs
    BY <1>2
  <2>2. QED
    BY <1>2, <2>1 DEF Post, IInv, MountingInv
<1>5. QED
  BY <1>3, <1>4


\* A goroutine that has not returned made no mount: every mount belongs to
\* a goroutine that is done.
LEMMA NoMountYet ==
    ASSUME MountsInv, NEW i \in DOMAIN procs, procs[i].pc # "done"
    PROVE  \A m \in mounts : m.proc # i
  BY DEF MountsInv

\* The filter of eventsProcess: a hot-plug creates its directory and enters
\* the mount loop, anything else returns; nothing is mounted.
LEMMA FilterKeepsIInv ==
    ASSUME IInv, NEW i \in DOMAIN procs, Filter(i)
    PROVE  MountsInv' /\ MountingInv'
<1> DEFINE p == procs[i]
<1>1. procs \in Seq(Proc) /\ p \in Proc /\ p.pc = "filter"
  BY ProcAt DEF IInv, TInv, TypeOK, Filter
<1>2. \A m \in mounts : m.proc # i
  BY <1>1, NoMountYet DEF IInv
<1> DEFINE qm == [p EXCEPT !.pc = "mount", !.target = AbsPath(p.ev.path)]
           qd == [p EXCEPT !.pc = "done", !.outcome = "skipped"]
           q == IF IsHotplug(p.ev) THEN qm ELSE qd
<1>3. /\ q \in Proc
      /\ procs' = [procs EXCEPT ![i] = q]
      /\ q.ev = p.ev
      /\ q.pc = "mount" => IsHotplug(p.ev) /\ q.target \in dirs'
      /\ dirs \subseteq dirs' /\ mounts' = mounts
  <2>1. CASE IsHotplug(p.ev)
    <3>1. AbsPath(p.ev.path) \in Path
      BY <1>1, AbsPathType DEF Proc, Event
    <3>2. qm \in Proc /\ qm.ev = p.ev /\ qm.target = AbsPath(p.ev.path)
      BY <1>1, <3>1 DEF Proc
    <3>3. procs' = [procs EXCEPT ![i] = qm] /\ dirs' = dirs \cup {AbsPath(p.ev.path)}
          /\ mounts' = mounts
      BY <2>1 DEF Filter
    <3>4. QED
      BY <2>1, <3>2, <3>3
  <2>2. CASE ~IsHotplug(p.ev)
    <3>1. qd \in Proc /\ qd.ev = p.ev /\ qd.pc = "done"
      BY <1>1 DEF Proc
    <3>2. procs' = [procs EXCEPT ![i] = qd] /\ dirs' = dirs /\ mounts' = mounts
      BY <2>2 DEF Filter
    <3>3. QED
      BY <2>2, <3>1, <3>2
  <2>3. QED
    BY <2>1, <2>2
<1>4. /\ DOMAIN procs' = DOMAIN procs
      /\ \A j \in DOMAIN procs : procs'[j] = IF j = i THEN q ELSE procs[j]
  BY <1>1, <1>3, ProcsExcept
<1>5. MountsInv'
  BY <1>2, <1>3, <1>4 DEF IInv, MountsInv
<1>6. MountingInv'
  BY <1>3, <1>4 DEF IInv, MountingInv
<1>7. QED
  BY <1>5, <1>6

\* One turn of the mount loop: a mount, made once, by a goroutine that
\* returns at once; or a failed attempt that keeps the event and target.
LEMMA MountTryKeepsIInv ==
    ASSUME IInv, NEW i \in DOMAIN procs, MountTry(i)
    PROVE  MountsInv' /\ MountingInv'
<1> DEFINE p == procs[i]
           nm == [proc |-> i, source |-> MountSource(p.ev), target |-> p.target]
<1>1. procs \in Seq(Proc) /\ p \in Proc /\ p.pc = "mount" /\ p.tries < MountAttempts
  BY ProcAt DEF IInv, TInv, TypeOK, MountTry
<1>2. \A m \in mounts : m.proc # i
  BY <1>1, NoMountYet DEF IInv
<1>3. IsHotplug(p.ev) /\ p.target \in dirs
  BY <1>1 DEF IInv, MountingInv
<1>5. CASE MountSource(p.ev) \in ready
  <2> DEFINE q == [p EXCEPT !.pc = "done", !.outcome = "mounted", !.tries = p.tries + 1]
  <2>0. q \in Proc /\ q.ev = p.ev /\ q.pc = "done" /\ q.outcome = "mounted"
    <3>1. p.tries + 1 \in 0..MountAttempts
      BY <1>1 DEF Proc
    <3>2. QED
      BY <1>1, <3>1 DEF Proc
  <2>1. /\ procs' = [procs EXCEPT ![i] = q] /\ mounts' = mounts \cup {nm}
        /\ dirs' = dirs
    BY <1>5 DEF MountTry
  <2>4. /\ DOMAIN procs' = DOMAIN procs
        /\ \A j \in DOMAIN procs : procs'[j] = IF j = i THEN q ELSE procs[j]
    BY <1>1, <2>0, <2>1, ProcsExcept
  <2>2. MountsInv'
    <3> SUFFICES ASSUME NEW m \in mounts'
                 PROVE  /\ m.proc \in DOMAIN procs'
                        /\ procs'[m.proc].pc = "done" /\ procs'[m.proc].outcome = "mounted"
                        /\ IsHotplug(procs'[m.proc].ev)
                        /\ m.source = MountSource(procs'[m.proc].ev)
                        /\ m.target \in dirs'
                        /\ \A m2 \in mounts' : m2.proc = m.proc => m2 = m
      BY DEF MountsInv
    <3>1. CASE m = nm
      <4>1. m.proc = i /\ i \in DOMAIN procs' /\ procs'[i] = q
        BY <2>4, <3>1
      <4>2. m.source = MountSource(q.ev) /\ m.target \in dirs' /\ IsHotplug(q.ev)
        BY <1>3, <2>0, <2>1, <3>1
      <4>3. \A m2 \in mounts' : m2.proc = i => m2 = m
        BY <1>2, <2>1, <3>1
      <4>4. QED
        BY <2>0, <4>1, <4>2, <4>3
    <3>2. CASE m \in mounts
      <4>1. m.proc # i /\ m.proc \in DOMAIN procs
        BY <1>2, <3>2 DEF IInv, MountsInv
      <4>2. \A m2 \in mounts' : m2.proc = m.proc => m2 \in mounts
        BY <2>1, <4>1
      <4>3. QED
        BY <2>1, <2>4, <3>2, <4>1, <4>2 DEF IInv, MountsInv
    <3>3. QED
      BY <2>1, <3>1, <3>2
  <2>3. MountingInv'
    BY <2>1, <2>4 DEF IInv, MountingInv
  <2>5. QED
    BY <2>2, <2>3
<1>6. CASE MountSource(p.ev) \notin ready
  <2> DEFINE q == [p EXCEPT !.tries = p.tries + 1,
                            !.pc = IF p.tries + 1 = MountAttempts THEN "done" ELSE "mount",
                            !.outcome = IF p.tries + 1 = MountAttempts THEN "failed" ELSE "none"]
  <2>0. q \in Proc /\ q.ev = p.ev /\ q.target = p.target
    <3>1. p.tries + 1 \in 0..MountAttempts
      BY <1>1 DEF Proc
    <3>2. QED
      BY <1>1, <3>1 DEF Proc
  <2>1. procs' = [procs EXCEPT ![i] = q] /\ mounts' = mounts /\ dirs' = dirs
    BY <1>6 DEF MountTry
  <2>2. /\ DOMAIN procs' = DOMAIN procs
        /\ \A j \in DOMAIN procs : procs'[j] = IF j = i THEN q ELSE procs[j]
    BY <1>1, <2>0, <2>1, ProcsExcept
  <2>3. MountsInv'
    BY <1>2, <2>1, <2>2 DEF IInv, MountsInv
  <2>4. MountingInv'
    BY <1>3, <2>0, <2>1, <2>2 DEF IInv, MountingInv
  <2>5. QED
    BY <2>3, <2>4
<1>7. QED
  BY <1>5, <1>6


LEMMA IInvStep == IInv /\ [Next]_vars => IInv'
<1> SUFFICES ASSUME IInv, [Next]_vars PROVE IInv'
  OBVIOUS
<1>0. TInv'
  BY TInvStep DEF IInv
<1>1. ASSUME NEW l \in Listeners, NEW t \in RequestedTypes, Subscribe(l, t) PROVE IInv'
  BY <1>0, <1>1, MountFactsFrame DEF Subscribe, IInv
<1>2. ASSUME NEW l \in Listeners, Disconnect(l) PROVE IInv'
  BY <1>0, <1>2, MountFactsFrame DEF Disconnect, IInv
<1>3. CASE PostUndecodable
  BY <1>0, <1>3, MountFactsFrame DEF PostUndecodable, IInv
<1>4. ASSUME NEW e \in Event, Post(e) PROVE IInv'
  BY <1>0, <1>4, PostKeepsIInv DEF IInv
<1>5. ASSUME NEW i \in DOMAIN procs, Filter(i) PROVE IInv'
  BY <1>0, <1>5, FilterKeepsIInv DEF Filter, IInv
<1>6. ASSUME NEW i \in DOMAIN procs, MountTry(i) PROVE IInv'
  BY <1>0, <1>6, MountTryKeepsIInv DEF MountTry, IInv
<1>7. ASSUME NEW src \in Source, ShareReady(src) PROVE IInv'
  BY <1>0, <1>7, MountFactsFrame DEF ShareReady, IInv
<1>8. CASE UNCHANGED vars
  BY <1>0, <1>8, MountFactsFrame DEF vars, IInv
<1>9. QED
  BY <1>1, <1>2, <1>3, <1>4, <1>5, <1>6, <1>7, <1>8 DEF Next, Goroutine

\* Every mount eventsProcess performs, in any interleaving of the host's
\* posts, the goroutines' filters and mount attempts and the shares
\* becoming ready, is of an added disk device whose path has no "..",
\* from that device's share, onto a directory created for it, and no
\* hot-plug event is mounted twice.
THEOREM MountsAreHotplugsHolds == Spec => []MountsAreHotplugs
<1>1. IInv => MountsAreHotplugs
  BY DEF IInv, MountsInv, MountsAreHotplugs, IsHotplug, HasDotDot
<1>2. QED
  BY <1>1, IInvInit, IInvStep, PTL DEF Spec

=============================================================================
