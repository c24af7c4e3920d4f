------------------------------- MODULE Vault -------------------------------
(***************************************************************************)
(* The versioned save store of one game (crate salvae-vault, vault.rs)     *)
(* over a shared Discord channel.  Every device of the group runs          *)
(* push_version, download and latest_version / list_versions against the   *)
(* same channel with no lock: the unit of interleaving is one call of the  *)
(* Channel trait (list a page, send, delete, fetch a chunk).               *)
(*                                                                         *)
(* A message of the channel is either a version of the modelled game (a    *)
(* record) or noise: chat, "playing" markers, versions of other games,     *)
(* which scan skips but which fill its pages.                              *)
(***************************************************************************)
EXTENDS Naturals, FiniteSets, VersionOrder, Paging

CONSTANTS
    Devices,      \* the group's devices, each running one vault call at a time
    Contents,     \* save contents, told apart by their hash
    NoContent,    \* no content: the device is not pushing
    MaxVersions,  \* [Devices -> Nat]: max_versions of each device's config
    ScanPage,     \* SCAN_PAGE: messages per listed page
    Chunks,       \* attachments of a version (chunk_0 .. chunk_{Chunks-1})
    MaxMessages   \* bound: messages ever sent to the channel

ASSUME DevicesAssumption == IsFiniteSet(Devices)
ASSUME KeepAssumption == MaxVersions \in [Devices -> Nat]
ASSUME PageAssumption == ScanPage \in Nat \ {0}
ASSUME ChunksAssumption == Chunks \in Nat \ {0}
ASSUME BoundAssumption == MaxMessages \in Nat

VARIABLES
    channel,  \* version messages the channel holds now
    noise,    \* ids of the other messages it holds
    nextId,   \* the id of the next message
    pc,       \* what each device's vault call does next
    arg,      \* the content a push uploads
    want,     \* the version number a download looks for
    before,   \* scan cursor; 0 is None
    found,    \* version messages a scan has collected, then what is done with them
    chunk,    \* chunks a download has fetched
    reply,    \* how the device's last call returned
    since,    \* history: nextId when the device's current scan started
    sent      \* history: every version message ever stored

vars == <<channel, noise, nextId, pc, arg, want, before, found, chunk, reply,
          since, sent>>

Versions == [id : Nat, number : Nat, content : Contents]

\* Calls that are listing pages, and what each does once its scan is complete.
AfterScan == [pushScan |-> "check", pruneScan |-> "prune",
              findScan |-> "find", lookScan |-> "looked"]
Scanning == {"pushScan", "pruneScan", "findScan", "lookScan"}
Scanned  == {"check", "prune", "find", "looked"}
Phases   == {"idle", "delete", "fetch"} \cup Scanning \cup Scanned

\* A variant with a bug: max_versions = 0 deletes every version.
KeepAsConfigured(d) == MaxVersions[d]

\* max_versions == 0 is treated as 1.
Keep(d) == IF MaxVersions[d] = 0 THEN 1 ELSE MaxVersions[d]

\* list_messages(before, ScanPage).
Live == {m.id : m \in channel} \cup noise
Page(b) == PageOf(Live, b, ScanPage)

\* Variants with a bug: prune keeps one too few, keeps one too many, and deletes
\* the messages sent first whatever their numbers.
DoomedOneTooMany(d) ==
    {m \in found[d] : Cardinality(Better(m, found[d])) + 1 >= Keep(d)}
DoomedOneTooFew(d) ==
    {m \in found[d] : Cardinality(Better(m, found[d])) > Keep(d)}
DoomedByAge(d) ==
    {m \in found[d] : Cardinality({o \in found[d] : o.id > m.id}) >= Keep(d)}
Doomed(d) == {m \in found[d] : Cardinality(Better(m, found[d])) >= Keep(d)}

Init ==
    /\ channel = {} /\ noise = {} /\ nextId = 1 /\ sent = {}
    /\ pc = [d \in Devices |-> "idle"]
    /\ arg = [d \in Devices |-> NoContent]
    /\ want = [d \in Devices |-> 0]
    /\ before = [d \in Devices |-> 0]
    /\ found = [d \in Devices |-> {}]
    /\ chunk = [d \in Devices |-> 0]
    /\ reply = [d \in Devices |-> "none"]
    /\ since = [d \in Devices |-> 0]

-----------------------------------------------------------------------------
\* Beginning a call.  Messages are sent only by pushes and by other traffic,
\* which MaxMessages bounds.

Room == nextId + Cardinality({e \in Devices : pc[e] \in {"pushScan", "check"}})
          <= MaxMessages

StartScan(d, phase) ==
    /\ pc' = [pc EXCEPT ![d] = phase]
    /\ before' = [before EXCEPT ![d] = 0]
    /\ found' = [found EXCEPT ![d] = {}]
    /\ since' = [since EXCEPT ![d] = nextId]
    /\ reply' = [reply EXCEPT ![d] = "none"]

Push(d, c) ==
    /\ pc[d] = "idle" /\ Room
    /\ StartScan(d, "pushScan")
    /\ arg' = [arg EXCEPT ![d] = c]
    /\ UNCHANGED <<channel, noise, nextId, want, chunk, sent>>

Download(d, n) ==
    /\ pc[d] = "idle"
    /\ StartScan(d, "findScan")
    /\ want' = [want EXCEPT ![d] = n]
    /\ UNCHANGED <<channel, noise, nextId, arg, chunk, sent>>

\* latest_version and list_versions.
Look(d) ==
    /\ pc[d] = "idle"
    /\ StartScan(d, "lookScan")
    /\ UNCHANGED <<channel, noise, nextId, arg, want, chunk, sent>>

Return(d, how) ==
    /\ pc' = [pc EXCEPT ![d] = "idle"]
    /\ found' = [found EXCEPT ![d] = {}]
    /\ before' = [before EXCEPT ![d] = 0]
    /\ want' = [want EXCEPT ![d] = 0]
    /\ chunk' = [chunk EXCEPT ![d] = 0]
    /\ since' = [since EXCEPT ![d] = 0]
    /\ arg' = [arg EXCEPT ![d] = NoContent]
    /\ reply' = [reply EXCEPT ![d] = how]

-----------------------------------------------------------------------------
\* A variant with a bug: the scan reads the newest page only.
ListNewestPage(d) ==
    /\ pc[d] \in Scanning
    /\ found' = [found EXCEPT ![d] = {m \in channel : m.id \in Page(0)}]
    /\ pc' = [pc EXCEPT ![d] = AfterScan[pc[d]]]
    /\ UNCHANGED <<channel, noise, nextId, arg, want, before, chunk, reply, since, sent>>

\* scan: one page per step, until a page is not full.
ListPage(d) ==
    /\ pc[d] \in Scanning
    /\ LET page == Page(before[d]) IN
         /\ found' = [found EXCEPT ![d] =
                        @ \cup {m \in channel : m.id \in page}]
         /\ IF Cardinality(page) = ScanPage
            THEN /\ \E last \in page : /\ IsLast(last, page)
                                       /\ before' = [before EXCEPT ![d] = last]
                 /\ UNCHANGED pc
            ELSE /\ pc' = [pc EXCEPT ![d] = AfterScan[pc[d]]]
                 /\ UNCHANGED before
    /\ UNCHANGED <<channel, noise, nextId, arg, want, chunk, reply, since, sent>>

\* push_version: the newest version found already has this content.
Unchanged(d) ==
    /\ pc[d] = "check"
    /\ \E m \in found[d] : IsLatest(m, found[d]) /\ m.content = arg[d]
    /\ Return(d, "unchanged")
    /\ UNCHANGED <<channel, noise, nextId, sent>>

\* push_version: send the new version's message, then prune.  When the answer
\* is lost (a timeout) the message is in the channel and the call fails.
Send(d, answered) ==
    /\ pc[d] = "check"
    /\ \A m \in found[d] : IsLatest(m, found[d]) => m.content # arg[d]
    /\ \E n \in {1} \cup {m.number + 1 : m \in found[d]} :
         /\ NextNumber(found[d], n)
         /\ LET m == [id |-> nextId, number |-> n, content |-> arg[d]] IN
              /\ channel' = channel \cup {m}
              /\ sent' = sent \cup {m}
    /\ nextId' = nextId + 1
    /\ IF answered
       THEN /\ pc' = [pc EXCEPT ![d] = "pruneScan"]
            /\ before' = [before EXCEPT ![d] = 0]
            /\ found' = [found EXCEPT ![d] = {}]
            /\ since' = [since EXCEPT ![d] = nextId + 1]
            /\ arg' = [arg EXCEPT ![d] = NoContent]
            /\ UNCHANGED <<want, chunk, reply>>
       ELSE Return(d, "transport")
    /\ UNCHANGED noise

\* prune: at most Keep(d) versions found, nothing to delete.
NothingToPrune(d) ==
    /\ pc[d] = "prune" /\ Doomed(d) = {}
    /\ Return(d, "pushed")
    /\ UNCHANGED <<channel, noise, nextId, sent>>

\* prune: the doomed versions are fixed by this scan.
PlanPrune(d) ==
    /\ pc[d] = "prune" /\ Doomed(d) # {}
    /\ pc' = [pc EXCEPT ![d] = "delete"]
    /\ found' = [found EXCEPT ![d] = Doomed(d)]
    /\ UNCHANGED <<channel, noise, nextId, arg, want, before, chunk, reply, since, sent>>

\* prune: delete the lowest doomed version; a message another device has
\* already deleted is NotFound and ends the push with that error.
Delete(d, answered) ==
    /\ pc[d] = "delete"
    /\ \E m \in found[d] :
         /\ \A o \in found[d] : o = m \/ Above(o, m)
         /\ channel' = channel \ {m}
         /\ \/ m \notin channel /\ Return(d, "notFound")
            \/ m \in channel /\ ~answered /\ Return(d, "transport")
            \/ /\ m \in channel /\ answered /\ found[d] = {m}
               /\ Return(d, "pushed")
            \/ /\ m \in channel /\ answered /\ found[d] # {m}
               /\ found' = [found EXCEPT ![d] = @ \ {m}]
               /\ UNCHANGED <<pc, arg, want, before, chunk, reply, since>>
    /\ UNCHANGED <<noise, nextId, sent>>

\* download: the first message of a newest-first scan with the wanted number,
\* so the newest one.
Find(d) ==
    /\ pc[d] = "find"
    /\ \/ /\ \A m \in found[d] : m.number # want[d]
          /\ Return(d, "notFound")
       \/ /\ \E m \in found[d] :
               /\ IsHit(m, want[d], found[d])
               /\ found' = [found EXCEPT ![d] = {m}]
          /\ pc' = [pc EXCEPT ![d] = "fetch"]
          /\ UNCHANGED <<arg, want, before, chunk, reply, since>>
    /\ UNCHANGED <<channel, noise, nextId, sent>>

\* download: fetch the next chunk; the message is looked up again each time.
Fetch(d) ==
    /\ pc[d] = "fetch"
    /\ IF ~ found[d] \subseteq channel
       THEN Return(d, "notFound")
       ELSE IF chunk[d] + 1 = Chunks
            THEN Return(d, "downloaded")
            ELSE /\ chunk' = [chunk EXCEPT ![d] = @ + 1]
                 /\ UNCHANGED <<pc, arg, want, before, found, reply, since>>
    /\ UNCHANGED <<channel, noise, nextId, sent>>

Looked(d) ==
    /\ pc[d] = "looked"
    /\ Return(d, "looked")
    /\ UNCHANGED <<channel, noise, nextId, sent>>

\* A request that never reached Discord, an error status, or the process ending:
\* nothing of the call's progress survives.
Fail(d) ==
    /\ pc[d] \in Scanning \cup {"check", "delete", "fetch"}
    /\ Return(d, "transport")
    /\ UNCHANGED <<channel, noise, nextId, sent>>

-----------------------------------------------------------------------------
\* Other traffic of the channel.
Post ==
    /\ Room
    /\ noise' = noise \cup {nextId}
    /\ nextId' = nextId + 1
    /\ UNCHANGED <<channel, pc, arg, want, before, found, chunk, reply, since, sent>>

Unpost(i) ==
    /\ noise' = noise \ {i}
    /\ UNCHANGED <<channel, nextId, pc, arg, want, before, found, chunk, reply,
                   since, sent>>

\* A call's own steps, when every request is answered.
Step(d) ==
    \/ ListPage(d) \/ Unchanged(d) \/ Send(d, TRUE)
    \/ NothingToPrune(d) \/ PlanPrune(d) \/ Delete(d, TRUE)
    \/ Find(d) \/ Fetch(d) \/ Looked(d)

Trouble(d) == Fail(d) \/ Send(d, FALSE) \/ Delete(d, FALSE)

Begin(d) ==
    \/ \E c \in Contents : Push(d, c)
    \/ \E n \in {m.number : m \in sent} : Download(d, n)
    \/ Look(d)

Next ==
    \/ \E d \in Devices : Begin(d) \/ Step(d) \/ Trouble(d)
    \/ Post
    \/ \E i \in noise : Unpost(i)

Spec == Init /\ [][Next]_vars

\* Every request ends within the client's 30 s timeout and a bounded number of
\* rate-limit retries, so a call that has begun keeps taking steps.
FairSpec == Spec /\ \A d \in Devices : WF_vars(Step(d))

-----------------------------------------------------------------------------
Replies == {"none", "unchanged", "pushed", "notFound", "transport",
            "downloaded", "looked"}

\* The types of the state; a device has a content to push exactly while it may
\* still send it (push_version's save argument).
TypeOK ==
    /\ channel \subseteq sent /\ sent \subseteq Versions /\ IsFiniteSet(sent)
    /\ noise \subseteq Nat /\ nextId \in Nat \ {0}
    /\ pc \in [Devices -> Phases]
    /\ arg \in [Devices -> Contents \cup {NoContent}]
    /\ \A d \in Devices : pc[d] \in {"pushScan", "check"} => arg[d] \in Contents
    /\ want \in [Devices -> Nat] /\ before \in [Devices -> Nat]
    /\ found \in [Devices -> SUBSET sent]
    /\ chunk \in [Devices -> Nat]
    /\ reply \in [Devices -> Replies]
    /\ since \in [Devices -> Nat]

\* vault.rs:173-175, "delete the oldest ... until at most max_versions remain":
\* the version a device deletes is never one of the max_versions best that were
\* ever stored, by its own setting, although the list it deletes from is old by
\* then and other devices, with settings of their own, send and delete meanwhile.
RecentKept ==
    [][\A d \in Devices : \A m \in channel \ channel' :
         found'[d] # found[d] => Cardinality(Better(m, sent)) >= Keep(d)]_vars

\* vault.rs:174-175, "to never leave a game with no save": the best version ever
\* stored is in the channel at every instant of every interleaving.
NeverLost ==
    sent # {} => \E m \in channel : IsLatest(m, sent)

\* scan pages through the channel while others send and delete: what it returns
\* includes every version that was there when it began and still is.
ScanComplete ==
    \A d \in Devices : pc[d] \in Scanned =>
      {m \in channel : m.id < since[d]} \subseteq found[d]

\* prune's promise (vault.rs:173-174): when a push returns Ok, at most
\* max_versions of the versions stored before its prune began remain.
PruneBounds ==
    [][\A d \in Devices :
         (pc[d] \in {"prune", "delete"} /\ pc'[d] = "idle" /\ reply'[d] = "pushed")
           => Cardinality({m \in channel' : m.id < since[d]}) <= Keep(d)]_vars

\* A call never hangs: whatever the other devices send and delete, its scan
\* reaches a page that is not full and the call returns to its caller.
CallsReturn == \A d \in Devices : pc[d] # "idle" ~> pc[d] = "idle"

-----------------------------------------------------------------------------
\* The vault implements the abstract history of versions: a send stores one
\* version, a delete forgets one that enough better ones outlive, and every other
\* step leaves the history as it is.
History == INSTANCE SaveHistory
             WITH stored <- channel, ever <- sent,
                  Limits <- {Keep(d) : d \in Devices}

\* Vault implements SaveHistory: checked step by step by TLC.
ImplementsHistory == History!Init /\ [][History!Change]_<<channel, sent>>
=============================================================================
