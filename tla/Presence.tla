------------------------------ MODULE Presence ------------------------------
(***************************************************************************)
(* "Currently playing" markers of one game (crate salvae-sync: marker.rs,  *)
(* and who_is_playing, begin_playing, end_playing of engine.rs), as the    *)
(* agent's handle_open and handle_close use them on every device.          *)
(*                                                                         *)
(* Markers share the channel with everything else; a step is one request.  *)
(* All devices read one clock.                                             *)
(***************************************************************************)
EXTENDS Naturals, FiniteSets, Paging

CONSTANTS
    Devices,
    TTL,          \* PLAYING_TTL_MS
    ScanPage,     \* SCAN_PAGE
    MaxMessages,  \* bound: messages ever sent to the channel
    MaxTime       \* bound: the clock

ASSUME TtlAssumption == TTL \in Nat \ {0}
ASSUME PageAssumption == ScanPage \in Nat \ {0}
ASSUME BoundAssumption == MaxMessages \in Nat /\ MaxTime \in Nat

VARIABLES
    markers,  \* the markers the channel holds
    noise,    \* ids of its other messages
    nextId,   \* the id of the next message
    now,      \* the clock
    playing,  \* the agent counts the game as open on these devices
    due,      \* devices whose close still has to be handled (pending_pushes)
    pc,       \* what each device's handler does next
    asOf,     \* now_ms of the running handler
    before,   \* scan cursor; 0 is None
    full,     \* the page end_playing is deleting from was full
    doomed,   \* ids on that page it has still to delete
    others,   \* who_is_playing's result: devices
    reply,    \* how the device's last handler ended
    since,    \* history: nextId when the running scan began
    posted    \* history: id of the marker of the device's session; 0 is none

vars == <<markers, noise, nextId, now, playing, due, pc, asOf, before, full,
          doomed, others, reply, since, posted>>
scan == <<before, full, doomed, others>>

Phases == {"idle", "look", "pull", "post", "clear", "delete"}
Ids == {m.id : m \in markers} \cup noise
Page(b) == PageOf(Ids, b, ScanPage)
Active(m, t) == m.expires > t

Init ==
    /\ markers = {} /\ noise = {} /\ nextId = 1 /\ now = 0
    /\ playing = {} /\ due = {}
    /\ pc = [d \in Devices |-> "idle"]
    /\ asOf = [d \in Devices |-> 0]
    /\ before = [d \in Devices |-> 0]
    /\ full = [d \in Devices |-> FALSE]
    /\ doomed = [d \in Devices |-> {}]
    /\ others = [d \in Devices |-> {}]
    /\ reply = [d \in Devices |-> "none"]
    /\ since = [d \in Devices |-> 0]
    /\ posted = [d \in Devices |-> 0]

-----------------------------------------------------------------------------
Start(d, phase) ==
    /\ pc' = [pc EXCEPT ![d] = phase]
    /\ asOf' = [asOf EXCEPT ![d] = now]
    /\ before' = [before EXCEPT ![d] = 0]
    /\ others' = [others EXCEPT ![d] = {}]
    /\ since' = [since EXCEPT ![d] = nextId]
    /\ reply' = [reply EXCEPT ![d] = "none"]
    /\ UNCHANGED <<full, doomed>>

Finish(d, how) ==
    /\ pc' = [pc EXCEPT ![d] = "idle"]
    /\ reply' = [reply EXCEPT ![d] = how]
    /\ before' = [before EXCEPT ![d] = 0]
    /\ full' = [full EXCEPT ![d] = FALSE]
    /\ doomed' = [doomed EXCEPT ![d] = {}]
    /\ others' = [others EXCEPT ![d] = {}]
    /\ asOf' = [asOf EXCEPT ![d] = 0]
    /\ since' = [since EXCEPT ![d] = 0]

Room == nextId <= MaxMessages

\* A variant with a bug: opening leaves the pending close, which then removes the
\* marker of the new session.
OpenKeepsClose(d) ==
    /\ pc[d] = "idle" /\ d \notin playing
    /\ playing' = playing \cup {d}
    /\ Start(d, "look")
    /\ UNCHANGED <<markers, noise, nextId, now, due, posted>>

\* tick on Opened: cancel the pending close, and begin handle_open.
Open(d) ==
    /\ pc[d] = "idle" /\ d \notin playing
    /\ playing' = playing \cup {d}
    /\ due' = due \ {d}
    /\ Start(d, "look")
    /\ UNCHANGED <<markers, noise, nextId, now, posted>>

\* who_is_playing: one page per step, until a page is not full.
Look(d) ==
    /\ pc[d] = "look"
    /\ LET page == Page(before[d]) IN
         /\ others' = [others EXCEPT ![d] = @ \cup
              {m.device : m \in {k \in markers : /\ k.id \in page /\ k.device # d
                                                 /\ Active(k, asOf[d])}}]
         /\ IF Cardinality(page) = ScanPage
            THEN /\ \E last \in page : /\ IsLast(last, page)
                                       /\ before' = [before EXCEPT ![d] = last]
                 /\ UNCHANGED pc
            ELSE pc' = [pc EXCEPT ![d] = "pull"] /\ UNCHANGED before
    /\ UNCHANGED <<markers, noise, nextId, now, playing, due, asOf, full, doomed,
                   reply, since, posted>>

\* handle_open's pull.
Pull(d) ==
    /\ pc[d] = "pull"
    /\ pc' = [pc EXCEPT ![d] = "post"]
    /\ UNCHANGED <<markers, noise, nextId, now, playing, due, asOf, scan, reply,
                   since, posted>>

\* begin_playing: one more marker, whatever earlier ones remain.
Post(d, answered) ==
    /\ pc[d] = "post" /\ Room
    /\ markers' = markers \cup
         {[id |-> nextId, device |-> d, expires |-> asOf[d] + TTL]}
    /\ nextId' = nextId + 1
    /\ posted' = [posted EXCEPT ![d] = nextId]
    /\ Finish(d, IF answered THEN "opened" ELSE "error")
    /\ UNCHANGED <<noise, now, playing, due>>

\* tick on Closed: the rest waits PUSH_STABILIZE_MS.
Close(d) ==
    /\ pc[d] = "idle" /\ d \in playing
    /\ playing' = playing \ {d}
    /\ due' = due \cup {d}
    /\ posted' = [posted EXCEPT ![d] = 0]
    /\ UNCHANGED <<markers, noise, nextId, now, pc, asOf, scan, reply, since>>

\* handle_close: end_playing.
Clear(d) ==
    /\ pc[d] = "idle" /\ d \in due
    /\ due' = due \ {d}
    /\ Start(d, "clear")
    /\ UNCHANGED <<markers, noise, nextId, now, playing, posted>>

\* end_playing lists a page and picks this device's markers on it.
ListOwn(d) ==
    /\ pc[d] = "clear"
    /\ LET page == Page(before[d]) IN
         /\ doomed' = [doomed EXCEPT ![d] =
              {m.id : m \in {k \in markers : k.id \in page /\ k.device = d}}]
         /\ full' = [full EXCEPT ![d] = Cardinality(page) = ScanPage]
         /\ IF page = {}
            THEN UNCHANGED before
            ELSE \E last \in page : /\ IsLast(last, page)
                                    /\ before' = [before EXCEPT ![d] = last]
    /\ pc' = [pc EXCEPT ![d] = "delete"]
    /\ UNCHANGED <<markers, noise, nextId, now, playing, due, asOf, others, reply,
                   since, posted>>

\* It deletes them, newest first.
Delete(d, answered) ==
    /\ pc[d] = "delete"
    /\ \E i \in doomed[d] :
         /\ \A j \in doomed[d] : j <= i
         /\ markers' = {m \in markers : m.id # i}
         /\ IF answered
            THEN /\ doomed' = [doomed EXCEPT ![d] = @ \ {i}]
                 /\ UNCHANGED <<pc, reply, before, full, others, asOf, since>>
            ELSE Finish(d, "error")
    /\ UNCHANGED <<noise, nextId, now, playing, due, posted>>

\* Variants with a bug: end_playing stops after the newest page.
EndAfterPage(d) ==
    /\ pc[d] = "delete" /\ doomed[d] = {}
    /\ Finish(d, "closed")
    /\ UNCHANGED <<markers, noise, nextId, now, playing, due, posted>>

\* Then it goes on below the page, if that was full.
NextPage(d) ==
    /\ pc[d] = "delete" /\ doomed[d] = {}
    /\ IF full[d]
       THEN /\ pc' = [pc EXCEPT ![d] = "clear"]
            /\ UNCHANGED <<before, full, doomed, others, reply, asOf, since>>
       ELSE Finish(d, "closed")
    /\ UNCHANGED <<markers, noise, nextId, now, playing, due, posted>>

\* A request or the pull fails, and the handler with it.
Fail(d) ==
    /\ pc[d] \in Phases \ {"idle"}
    /\ Finish(d, "error")
    /\ UNCHANGED <<markers, noise, nextId, now, playing, due, posted>>

\* The app ends; the agent that starts next knows of no game.
Restart(d) ==
    /\ playing' = playing \ {d}
    /\ due' = due \ {d}
    /\ posted' = [posted EXCEPT ![d] = 0]
    /\ Finish(d, "none")
    /\ UNCHANGED <<markers, noise, nextId, now>>

Time ==
    /\ now < MaxTime
    /\ now' = now + 1
    /\ UNCHANGED <<markers, noise, nextId, playing, due, pc, asOf, scan, reply, since, posted>>

Chat ==
    /\ Room
    /\ noise' = noise \cup {nextId}
    /\ nextId' = nextId + 1
    /\ UNCHANGED <<markers, now, playing, due, pc, asOf, scan, reply, since, posted>>

Step(d) ==
    \/ Open(d) \/ Look(d) \/ Pull(d) \/ Post(d, TRUE)
    \/ Close(d) \/ Clear(d) \/ ListOwn(d) \/ Delete(d, TRUE) \/ NextPage(d)
Trouble(d) == Fail(d) \/ Post(d, FALSE) \/ Delete(d, FALSE) \/ Restart(d)

Next == Time \/ Chat \/ \E d \in Devices : Step(d) \/ Trouble(d)

Spec == Init /\ [][Next]_vars

-----------------------------------------------------------------------------
\* The types of the state.
TypeOK ==
    /\ markers \subseteq [id : Nat, device : Devices, expires : Nat]
    /\ noise \subseteq Nat /\ nextId \in Nat \ {0} /\ now \in Nat
    /\ playing \subseteq Devices /\ due \subseteq Devices \ playing
    /\ pc \in [Devices -> Phases]
    /\ asOf \in [Devices -> Nat] /\ before \in [Devices -> Nat]
    /\ full \in [Devices -> BOOLEAN] /\ doomed \in [Devices -> SUBSET Nat]
    /\ others \in [Devices -> SUBSET Devices]
    /\ reply \in [Devices -> {"none", "opened", "closed", "error"}]
    /\ since \in [Devices -> Nat] /\ posted \in [Devices -> Nat]

\* engine.rs:349, "remove this device's playing markers": when a close has been
\* handled, none is left, also not of sessions that crashed, were reopened within
\* the five seconds or failed to close, and on whatever page of the channel.
CloseLeavesNoMarker ==
    [][\A d \in Devices : pc[d] = "delete" /\ reply'[d] = "closed" =>
         \A m \in markers' : m.device # d]_vars

HasPosted(e, d) == posted[e] # 0 /\ posted[e] < since[d] /\ e \in playing /\ e # d

\* README.md:60-61, while the marker is active: a device that was playing when the
\* scan of another's open began is in its result; in particular the handling of an
\* earlier close never removes a running session's marker.
SeesWhoPlays ==
    \A d, e \in Devices :
      (pc[d] \in {"pull", "post"} /\ HasPosted(e, d)
         /\ \A m \in markers : m.id = posted[e] => Active(m, asOf[d]))
      => e \in others[d]
=============================================================================
