--------------------------- MODULE MCAgentEvents ---------------------------
(***************************************************************************)
(* Model-checking instance of AgentEvents.  Device names are model        *)
(* values.  MCEvent replaces the set of all events the host may post by a *)
(* hot-plug of a relative and of an absolute path, and one event for each *)
(* early return of eventsProcess, each differing from the hot-plug in the *)
(* one field that return tests.                                           *)
(***************************************************************************)
EXTENDS AgentEvents, TLC

MCRel == [abs |-> FALSE, comps |-> <<"mnt">>]

MCHotplug(n) == [type |-> "device", action |-> "added", disk |-> TRUE,
                 path |-> MCRel, name |-> n, custom |-> FALSE, decodes |-> TRUE]

MCEvent ==
    UNION {{MCHotplug(n),
            [MCHotplug(n) EXCEPT !.path = [abs |-> TRUE, comps |-> <<"mnt">>]],
            [MCHotplug(n) EXCEPT !.custom = TRUE],
            [MCHotplug(n) EXCEPT !.path = [abs |-> FALSE, comps |-> <<"..", "mnt">>]],
            [MCHotplug(n) EXCEPT !.path = [abs |-> TRUE, comps |-> <<"..", "mnt">>]],
            [MCHotplug(n) EXCEPT !.path = EmptyPath],
            [MCHotplug(n) EXCEPT !.disk = FALSE],
            [MCHotplug(n) EXCEPT !.action = "removed"],
            [MCHotplug(n) EXCEPT !.decodes = FALSE],
            [MCHotplug(n) EXCEPT !.type = "config"],
            [MCHotplug(n) EXCEPT !.type = "lifecycle"]} : n \in Names}

MCNameSymmetry == Permutations(Names)
=============================================================================
