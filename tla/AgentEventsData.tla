-------------------------- MODULE AgentEventsData --------------------------
(***************************************************************************)
(* The data of the agent's events endpoint (src/unnamed/part_003, the     *)
(* agent's events.go), used by the endpoint's model (AgentEvents): the    *)
(* events the host posts, the types a guest listener subscribes to, and   *)
(* the pure steps of eventsProcess that decide whether and where an event *)
(* is mounted.                                                            *)
(*                                                                         *)
(* Data are abstracted: a path is a record of an absolute flag and a      *)
(* sequence of components; a mount source is "lxd_" + name unless the     *)
(* event names a source.                                                  *)
(***************************************************************************)
EXTENDS Naturals, Sequences, FiniteSets

CONSTANTS
    Names,          \* device names of hot-plugged disks
    Listeners,      \* guest connections to GET /1.0/events
    MaxPosts,       \* bound on the events the host posts
    MountAttempts   \* the 5 of "for range 5" in eventsProcess

ASSUME AgentEventsAssumption ==
    /\ Names # {} /\ IsFiniteSet(Names)
    /\ MaxPosts \in Nat \ {0}
    /\ MountAttempts \in Nat \ {0}

\* Paths of the "path" key of a disk device: "", "mnt", "/mnt", "../mnt",
\* "/../mnt".  "/" is left out: it is the root disk, never hot-plugged.
Path == [abs : BOOLEAN, comps : Seq({"run", "lxd_agent", "mnt", ".."})]
Paths == {[abs |-> a, comps |-> c] : a \in BOOLEAN,
                                     c \in {<<>>, <<"mnt">>, <<"..", "mnt">>}}
            \ {[abs |-> TRUE, comps |-> <<>>]}
EmptyPath == [abs |-> FALSE, comps |-> <<>>]

\* The agent runs in /run/lxd_agent, the working directory of filepath.Abs.
Cwd == <<"run", "lxd_agent">>

\* api.Event with the device metadata eventsProcess unmarshals; "decodes"
\* is FALSE when json.Unmarshal of the metadata fails.
EventTypes == {"device", "config", "lifecycle"}
Event == [type : EventTypes, action : {"added", "removed"}, disk : BOOLEAN,
          path : Paths, name : Names, custom : BOOLEAN, decodes : BOOLEAN]

\* The types a listener may ask for with ?type=; "" is none.
RequestedTypes == {"", "lifecycle"}

Source == [custom : BOOLEAN, name : Names]
-----------------------------------------------------------------------------
(* eventsSocket: the types a listener subscribes to. *)
ListenerTypes(t) ==
    IF t = "" THEN {"logging", "operation", "lifecycle", "config", "device"}
              ELSE {t}

\* mntSource: "lxd_" + e.Name unless e.Mount.Source is set.
MountSource(e) == [custom |-> e.custom, name |-> e.name]

\* filepath.Abs: an absolute path is kept, a relative one is joined to the
\* working directory.  Clean has nothing to do: ".." was rejected before.
AbsPath(p) == [abs |-> TRUE, comps |-> IF p.abs THEN p.comps ELSE Cwd \o p.comps]

HasDotDot(p) == \E k \in DOMAIN p.comps : p.comps[k] = ".."

\* Mutant: the ".." check dropped.
IsHotplugAcceptingDotDot(e) ==
    /\ e.type = "device" /\ e.decodes /\ e.action = "added" /\ e.disk
    /\ e.path # EmptyPath

\* The early returns of eventsProcess: not a device event, metadata that do
\* not unmarshal, not "added", not a disk, no path, a path containing "..".
\* The check that Abs gave a path starting with "/" never fails.
IsHotplug(e) ==
    /\ e.type = "device"
    /\ e.decodes
    /\ e.action = "added"
    /\ e.disk
    /\ e.path # EmptyPath
    /\ ~HasDotDot(e.path)

=============================================================================
