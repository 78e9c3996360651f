---------------------------- MODULE AgentEvents ----------------------------
(***************************************************************************)
(* The events endpoint of the VM agent (src/unnamed/part_003, the agent's  *)
(* events.go).  The host POSTs events to the agent: eventsPost forwards   *)
(* each to the agent's event listeners (d.events.Send), answers the host  *)
(* and starts one eventsProcess goroutine per event, which hot-plugs a    *)
(* virtiofs disk: filter the event, make the path absolute, create the    *)
(* directory and try the mount MountAttempts times.  Guest processes      *)
(* subscribe to the events with GET /1.0/events (eventsSocket).           *)
(*                                                                         *)
(* Data are abstracted: a path is a record of an absolute flag and a      *)
(* sequence of components; a mount source is "lxd_" + name unless the     *)
(* event names a source; the host's virtiofs share for a source either is *)
(* ready in the guest or is not yet.                                      *)
(***************************************************************************)
EXTENDS AgentEventsData

VARIABLES
    sent,       \* the events d.events.Send has broadcast, in order
    resp,       \* the status of each answer to a POST, in order
    procs,      \* procs[i]: the eventsProcess goroutine of the i-th sent event
    ready,      \* mount sources whose virtiofs share the guest can mount
    dirs,       \* directories created by os.MkdirAll
    mounts,     \* mounts performed: [proc, source, target]
    lstate,     \* lstate[l]: "none", "listening" or "closed"
    lreq,       \* lreq[l]: the ?type= of l's request, "" if none
    lsince,     \* Len(sent) when l subscribed
    lqueue      \* events delivered to l, in order

vars == <<sent, resp, procs, ready, dirs, mounts, lstate, lreq, lsince, lqueue>>

Proc == [ev : Event, pc : {"filter", "mount", "done"}, target : Path,
         tries : 0..MountAttempts, outcome : {"none", "skipped", "mounted", "failed"}]

TypeOK ==
    /\ sent \in Seq(Event)
    /\ resp \in Seq({200, 500})
    /\ procs \in Seq(Proc)
    /\ ready \subseteq Source
    /\ dirs \subseteq Path
    /\ mounts \subseteq [proc : Nat, source : Source, target : Path]
    /\ lstate \in [Listeners -> {"none", "listening", "closed"}]
    /\ lreq \in [Listeners -> RequestedTypes]
    /\ lsince \in [Listeners -> Nat]
    /\ lqueue \in [Listeners -> Seq(Event)]

Init ==
    /\ sent = <<>>
    /\ resp = <<>>
    /\ procs = <<>>
    /\ ready = {}
    /\ dirs = {}
    /\ mounts = {}
    /\ lstate = [l \in Listeners |-> "none"]
    /\ lreq = [l \in Listeners |-> ""]
    /\ lsince = [l \in Listeners |-> 0]
    /\ lqueue = [l \in Listeners |-> <<>>]

-----------------------------------------------------------------------------
\* GET /1.0/events: the websocket upgrade or the hijack, the stream listener
\* connection and AddListener either all succeed and the listener waits for
\* events until the request's context ends, or one fails and eventsSocket
\* returns its error with no listener.
Subscribe(l, t) ==
    /\ lstate[l] = "none"
    /\ \/ /\ lstate' = [lstate EXCEPT ![l] = "closed"]
          /\ UNCHANGED lsince
       \/ /\ lstate' = [lstate EXCEPT ![l] = "listening"]
          /\ lsince' = [lsince EXCEPT ![l] = Len(sent)]
    /\ lreq' = [lreq EXCEPT ![l] = t]
    /\ UNCHANGED <<sent, resp, procs, ready, dirs, mounts, lqueue>>

\* The request's context ends: listener.Wait returns and the connection closes.
Disconnect(l) ==
    /\ lstate[l] = "listening"
    /\ lstate' = [lstate EXCEPT ![l] = "closed"]
    /\ UNCHANGED <<sent, resp, procs, ready, dirs, mounts, lreq, lsince, lqueue>>

-----------------------------------------------------------------------------
(* eventsPost *)

\* The body does not decode as an api.Event, or d.events.Send fails to
\* encode the event's metadata: InternalError, before any listener got the
\* event and without a goroutine.
PostUndecodable ==
    /\ Len(resp) < MaxPosts
    /\ resp' = Append(resp, 500)
    /\ UNCHANGED <<sent, procs, ready, dirs, mounts, lstate, lreq, lsince, lqueue>>

\* d.events.Send broadcasts the event to every listener subscribed to its
\* type, then "go eventsProcess(event)" and SyncResponse(true).
Post(e) ==
    /\ Len(resp) < MaxPosts
    /\ sent' = Append(sent, e)
    /\ lqueue' = [l \in Listeners |->
                    IF lstate[l] = "listening" /\ e.type \in ListenerTypes(lreq[l])
                    THEN Append(lqueue[l], e) ELSE lqueue[l]]
    /\ procs' = Append(procs, [ev |-> e, pc |-> "filter", target |-> EmptyPath,
                               tries |-> 0, outcome |-> "none"])
    /\ resp' = Append(resp, 200)
    /\ UNCHANGED <<ready, dirs, mounts, lstate, lreq, lsince>>

-----------------------------------------------------------------------------
(* eventsProcess, one goroutine per sent event *)

\* From the start of the goroutine to os.MkdirAll.
Filter(i) ==
    /\ procs[i].pc = "filter"
    /\ LET e == procs[i].ev IN
       IF IsHotplug(e)
       THEN /\ dirs' = dirs \cup {AbsPath(e.path)}
            /\ procs' = [procs EXCEPT ![i].pc = "mount", ![i].target = AbsPath(e.path)]
       ELSE /\ procs' = [procs EXCEPT ![i].pc = "done", ![i].outcome = "skipped"]
            /\ UNCHANGED dirs
    /\ UNCHANGED <<sent, resp, ready, mounts, lstate, lreq, lsince, lqueue>>

\* Mutant: the mount is retried until it succeeds.
MountTryUntilMounted(i) ==
    /\ procs[i].pc = "mount"
    /\ LET p == procs[i]
           s == MountSource(p.ev)
       IN /\ s \in ready
          /\ mounts' = mounts \cup {[proc |-> i, source |-> s, target |-> p.target]}
          /\ procs' = [procs EXCEPT ![i].pc = "done", ![i].outcome = "mounted",
                                    ![i].tries = p.tries + 1]
    /\ UNCHANGED <<sent, resp, ready, dirs, lstate, lreq, lsince, lqueue>>

\* One turn of "for range MountAttempts": mount -t virtiofs succeeds once the
\* share is ready; after the last failure the goroutine logs and returns.
MountTry(i) ==
    /\ procs[i].pc = "mount"
    /\ LET p == procs[i]
           s == MountSource(p.ev)
       IN IF s \in ready
          THEN /\ mounts' = mounts \cup {[proc |-> i, source |-> s, target |-> p.target]}
               /\ procs' = [procs EXCEPT ![i].pc = "done", ![i].outcome = "mounted",
                                         ![i].tries = p.tries + 1]
          ELSE /\ procs' = [procs EXCEPT ![i].tries = p.tries + 1,
                              ![i].pc = IF p.tries + 1 = MountAttempts THEN "done" ELSE "mount",
                              ![i].outcome = IF p.tries + 1 = MountAttempts THEN "failed" ELSE "none"]
               /\ UNCHANGED mounts
    /\ UNCHANGED <<sent, resp, ready, dirs, lstate, lreq, lsince, lqueue>>

\* The host's virtiofs share of a posted device becomes usable in the guest.
ShareReady(s) ==
    /\ s \notin ready
    /\ \E i \in DOMAIN procs : MountSource(procs[i].ev) = s
    /\ ready' = ready \cup {s}
    /\ UNCHANGED <<sent, resp, procs, dirs, mounts, lstate, lreq, lsince, lqueue>>

Goroutine(i) == Filter(i) \/ MountTry(i)

Next ==
    \/ \E l \in Listeners, t \in RequestedTypes : Subscribe(l, t)
    \/ \E l \in Listeners : Disconnect(l)
    \/ PostUndecodable
    \/ \E e \in Event : Post(e)
    \/ \E i \in DOMAIN procs : Goroutine(i)
    \/ \E s \in Source : ShareReady(s)

\* The Go scheduler runs every started goroutine; the host's share and the
\* guest's listeners make no promise.
Spec == Init /\ [][Next]_vars /\ \A i \in 1..MaxPosts : WF_vars(i \in DOMAIN procs /\ Goroutine(i))

-----------------------------------------------------------------------------
(* Properties *)

\* Every hot-plug goroutine eventsPost starts ends, mounted, skipped or
\* given up, whether or not the host's share ever becomes ready: the mount
\* loop of eventsProcess is bounded.
HotplugSettles ==
    \A i \in 1..MaxPosts :
        (i \in DOMAIN procs) ~> (i \in DOMAIN procs /\ procs[i].pc = "done")

\* Every mount the agent performs is of an added disk device with a path
\* free of "..", from that device's share, on the directory created for it,
\* and each hot-plug event mounts at most once.
MountsAreHotplugs ==
    \A m \in mounts :
        LET e == procs[m.proc].ev IN
        /\ e.type = "device" /\ e.action = "added" /\ e.disk
        /\ \A k \in DOMAIN e.path.comps : e.path.comps[k] # ".."
        /\ m.source = MountSource(e)
        /\ m.target \in dirs
        /\ \A m2 \in mounts : m2.proc = m.proc => m2 = m

\* A hot-plugged disk whose path is relative is mounted under the guest's
\* root, "consistent with the way mounts are handled with containers" as the
\* comment before filepath.Abs in eventsProcess says.
RelativeHotplugUnderRoot ==
    \A m \in mounts :
        m.target = [abs |-> TRUE, comps |-> procs[m.proc].ev.path.comps]

=============================================================================
