------------------------------- MODULE TuiModel -------------------------------
(***************************************************************************)
(* The terminal interface of internal/tui: one event loop (model.Update),  *)
(* whose commands run beside it and come back as messages in any order.    *)
(* What it shows comes from two places: the rows of checks and peers from  *)
(* the status of the daemon, the alerts and the records behind all rows    *)
(* from cluster.yaml.  Writes go to the daemon, which may refuse, answer   *)
(* late or apply what nobody waits for any more; a follower has them       *)
(* applied by its master and sees them later.                              *)
(*                                                                         *)
(* An entry is a check, an alert or a peer that is on or off.  Tabs and    *)
(* the cursor are left out: a key may be about any row of any tab.  Of the *)
(* loads only the answers are kept, for a tick may start another at any    *)
(* time; of what nobody waits for any more only the writes.                *)
(***************************************************************************)
EXTENDS Integers, SequencesExt, BagsExt

CONSTANTS
    Checks, Alerts, Peers,  \* identifiers, used and still to be minted
    Known,                  \* the entries there are at first
    None,                   \* no modal; no answer yet
    MaxCalls,               \* bound on the writes on their way and unread answers
    MaxLoads,               \* bound on the unread answers to a kind of load
    MaxChanges              \* bound on the changes of the configuration

Ids == Checks \union Alerts \union Peers
Entry == [id : Ids, on : BOOLEAN]

ASSUME KnownAssumption == Known \in Seq(Entry)
ASSUME BoundsAssumption ==
    MaxCalls \in Nat \ {0} /\ MaxChanges \in Nat /\ MaxLoads \in [{"status", "config"} -> Nat \ {0}]

VARIABLES
    store,    \* the configuration the master has committed
    changes,  \* how often it has changed
    local,    \* the one of the node the interface runs on
    status,   \* the last status shown
    records,  \* the last cluster.yaml read
    loads,    \* unread answers to loads of either
    modal,    \* the open form, picker or confirmation
    calls,    \* writes and tests at the daemon, and who waits for them
    answers,  \* the unread messages modalDone and formSubmitErr
    minted,   \* identifiers given out so far
    running

vars == <<store, changes, local, status, records, loads, modal, calls, answers, minted,
          running>>

IdsOf(entries) == {entries[k].id : k \in DOMAIN entries}
Load == [of : {"status", "config"}, got : Seq(Entry)]

\* What a write does to the configuration.  An "ask" (a test, a token for a
\* new peer) changes no entry.
Write == [do : {"put", "drop", "ask"}, entry : Entry \union {None}]
Box == [kind : {"picker", "test", "form", "confirm"}, write : Write, busy : BOOLEAN]
Call == [write : Write, for : {"form", "key", "nobody"}]

TypeOK ==
    /\ store \in Seq(Entry) /\ local \in Seq(Entry)
    /\ status \in Seq(Entry) /\ records \in Seq(Entry)
    /\ \A s \in {store, local, status, records} : Len(s) = Cardinality(IdsOf(s))
    /\ \A l \in loads : l \in Load
    /\ changes \in 0 .. MaxChanges
    /\ modal \in Box \union {None}
    /\ modal # None => (modal.busy => modal.kind \in {"form", "confirm"})
    /\ IsABag(calls) /\ BagToSet(calls) \subseteq Call
    /\ BagCardinality(calls) <= MaxCalls
    /\ answers \in [{"done", "error"} -> 0 .. 2 * MaxCalls]
    /\ minted \subseteq Ids
    /\ running \in BOOLEAN

Init ==
    /\ store = Known /\ local = Known /\ changes = 0
    /\ status = <<>> /\ records = <<>>
    /\ loads = {}
    /\ modal = None
    /\ calls = EmptyBag
    /\ answers = [a \in {"done", "error"} |-> 0]
    /\ minted = IdsOf(Known)
    /\ running = TRUE

-----------------------------------------------------------------------------
Ask == [do |-> "ask", entry |-> None]
Put(e) == [do |-> "put", entry |-> e]
Drop(e) == [do |-> "drop", entry |-> e]

\* Of two entries with the same ID the new one takes the place of the old.
Applied(w, entries) ==
    CASE w.do = "ask" -> entries
      [] w.do = "drop" -> SelectSeq(entries, LAMBDA e : e.id # w.entry.id)
      [] w.do = "put" ->
            IF w.entry.id \in IdsOf(entries)
            THEN [k \in DOMAIN entries |->
                     IF entries[k].id = w.entry.id THEN w.entry ELSE entries[k]]
            ELSE Append(entries, w.entry)

Commit(w) ==
    /\ store' = Applied(w, store)
    /\ changes' = changes + (IF store' = store THEN 0 ELSE 1)
    /\ changes' <= MaxChanges

\* Loads of both kinds.  One is answered with what the node has now, or fails;
\* one that is answered later is a load of a later tick.
Reload ==
    \E kinds \in SUBSET {"status", "config"} :
        /\ loads' = loads \union [of : kinds, got : {local}]
        /\ \A of \in kinds : Cardinality({l \in loads' : l.of = of}) <= MaxLoads[of]

\* The rows of a tab.  Those of the alerts come from cluster.yaml.
Shown(tab) ==
    LET entries == IF tab = Alerts THEN records ELSE status
    IN  {e \in ToSet(entries) : e.id \in tab}
Recorded(id) == {e \in ToSet(records) : e.id = id}

Opened(kind, write) == [kind |-> kind, write |-> write, busy |-> FALSE]
Unattended(call) == [call EXCEPT !.for = "nobody"]
MayCall == BagCardinality(calls) + answers["done"] + answers["error"] < MaxCalls
Start(write, for) == calls' = BagAdd(calls, [write |-> write, for |-> for])

Answer(a) == answers' = [answers EXCEPT ![a] = @ + 1]
Unread(a) == answers[a] > 0 /\ answers' = [answers EXCEPT ![a] = @ - 1]

world == <<store, changes, local>>
screen == <<status, records>>

-----------------------------------------------------------------------------
(* Keys while no modal is open (handleKey). *)

\* "r"
RefreshKey ==
    /\ running /\ modal = None
    /\ Reload
    /\ UNCHANGED <<world, screen, modal, calls, answers, minted, running>>

\* "a": peers get their form at once, the others a choice of the type first.
OpenAdd ==
    /\ running /\ modal = None
    /\ modal' \in {Opened("form", Ask), Opened("picker", Ask)}
    /\ UNCHANGED <<world, screen, loads, calls, answers, minted, running>>

\* "d": the row is looked at now, not when the question is answered.
OpenRemove ==
    /\ running /\ modal = None
    /\ \E tab \in {Checks, Alerts, Peers} : \E e \in Shown(tab) :
           modal' = Opened("confirm", Drop(e))
    /\ UNCHANGED <<world, screen, loads, calls, answers, minted, running>>

\* "e": the form is filled from the record, not from the row; a row without
\* one gets a message.
OpenEdit ==
    /\ running /\ modal = None
    /\ \E tab \in {Checks, Alerts, Peers} : \E e \in Shown(tab) :
           \E r \in Recorded(e.id) :
              modal' = Opened("form", Put([r EXCEPT !.on = TRUE]))
    /\ UNCHANGED <<world, screen, loads, calls, answers, minted, running>>

\* "t" on a check asks which transition, on an alert it goes ahead.
OpenTest ==
    /\ running /\ modal = None
    /\ Shown(Checks) # {}
    /\ modal' = Opened("test", Ask)
    /\ UNCHANGED <<world, screen, loads, calls, answers, minted, running>>

TestAlert ==
    /\ running /\ modal = None /\ MayCall
    /\ Shown(Alerts) # {}
    /\ Start(Ask, "key")
    /\ UNCHANGED <<world, screen, loads, modal, answers, minted, running>>

\* "x" and "D" send the whole record with one flag turned.
Toggle ==
    /\ running /\ modal = None /\ MayCall
    /\ \E tab \in {Checks, Alerts} : \E e \in Shown(tab) :
           \E r \in Recorded(e.id) : Start(Put([r EXCEPT !.on = ~@]), "key")
    /\ UNCHANGED <<world, screen, loads, modal, answers, minted, running>>

\* "q".  What the daemon has been asked to do goes on without an audience.
Quit ==
    /\ running /\ modal = None
    /\ running' = FALSE
    /\ loads' = {}
    /\ answers' = [a \in DOMAIN answers |-> 0]
    /\ calls' = BagOfAll(Unattended,
                       Restrict(calls, {call \in BagToSet(calls) : call.write # Ask}))
    /\ UNCHANGED <<world, screen, modal, minted>>

-----------------------------------------------------------------------------
(* Keys while one is. *)

\* "esc", or "no" to a confirmation: the modal stays until the message it
\* sends to itself has come round, and a call under way is not cancelled.
Escape ==
    /\ running /\ modal # None
    /\ answers["done"] = 0 /\ Answer("done")
    /\ UNCHANGED <<world, screen, loads, modal, calls, minted, running>>

\* A type is chosen: the picker hands over to the form of a new entry, whose
\* ID is minted when it is sent.
Choose ==
    /\ running /\ modal # None /\ modal.kind = "picker"
    /\ \E id \in (Checks \union Alerts) \ minted :
           modal' = Opened("form", Put([id |-> id, on |-> TRUE]))
    /\ UNCHANGED <<world, screen, loads, calls, answers, minted, running>>

\* Mutant of Fire: the picker says it is working, and no answer says it is not.
FireBusy ==
    /\ running /\ modal # None /\ modal.kind = "test" /\ MayCall
    /\ modal' = [modal EXCEPT !.busy = TRUE]
    /\ Start(Ask, "key")
    /\ UNCHANGED <<world, screen, loads, answers, minted, running>>

\* A transition is chosen: the picker stays while the daemon works on it.
Fire ==
    /\ running /\ modal # None /\ modal.kind = "test" /\ MayCall
    /\ Start(Ask, "key")
    /\ UNCHANGED <<world, screen, loads, modal, answers, minted, running>>

\* The last field of a form, or "yes" to a confirmation; once at a time.
Submit ==
    /\ running /\ modal # None /\ modal.kind \in {"form", "confirm"} /\ MayCall
    /\ ~modal.busy
    /\ modal' = [modal EXCEPT !.busy = TRUE]
    /\ Start(modal.write, "form")
    /\ minted' = minted \union (IF modal.write.do = "put" THEN {modal.write.entry.id} ELSE {})
    /\ UNCHANGED <<world, screen, loads, answers, running>>

-----------------------------------------------------------------------------
(* Commands beside the loop, and the messages they come back with. *)

\* A refused form stays open with its error; everything else reports that it
\* is done, whatever became of it.
Report(for, ok) ==
    CASE for = "nobody" -> UNCHANGED answers
      [] for = "form" /\ ~ok -> Answer("error")
      [] OTHER -> Answer("done")

\* The daemon applies a write or refuses it; a form may refuse its input
\* itself.
Serve(call) ==
    /\ calls' = BagRemove(calls, call)
    /\ \E ok \in BOOLEAN :
          /\ IF ok THEN Commit(call.write) ELSE UNCHANGED <<store, changes>>
          /\ Report(call.for, ok)
    /\ UNCHANGED <<local, screen, loads, modal, minted, running>>

\* The deadline of callDaemon (15 or 30 s) passes while the daemon works.
TimeOut(call) ==
    /\ call.for # "nobody"
    /\ calls' = IF call.write = Ask
                THEN BagRemove(calls, call)
                ELSE BagAdd(BagRemove(calls, call), Unattended(call))
    /\ Report(call.for, FALSE)
    /\ UNCHANGED <<world, screen, loads, modal, minted, running>>

\* Somebody else changes the configuration.
ChangedElsewhere(e) ==
    /\ e.id \in minted
    /\ \E w \in {Put(e), Drop(e)} : Applied(w, store) # store /\ Commit(w)
    /\ UNCHANGED <<local, screen, loads, modal, calls, answers, minted, running>>

\* The node has what its master has.
CatchUp ==
    /\ local' = store
    /\ UNCHANGED <<store, changes, screen, loads, modal, calls, answers, minted, running>>

\* statusMsg and configMsg, in any order; one with an error changes nothing
\* and is left out.
Loaded(of) ==
    /\ \E l \in loads :
          /\ l.of = of
          /\ loads' = loads \ {l}
          /\ IF of = "status" THEN status' = l.got /\ UNCHANGED records
                              ELSE records' = l.got /\ UNCHANGED status
    /\ UNCHANGED <<world, modal, calls, answers, minted, running>>

\* Mutant of Tick: an open modal swallows the tick.
TickBehindModal ==
    /\ running /\ modal = None
    /\ Reload
    /\ UNCHANGED <<world, screen, modal, calls, answers, minted, running>>

\* tickMsg: every refreshInterval, modal or not, and the next one is armed.
Tick ==
    /\ running
    /\ Reload
    /\ UNCHANGED <<world, screen, modal, calls, answers, minted, running>>

\* modalDone: no modal is open any more, whoever sent it.
Done ==
    /\ Unread("done")
    /\ modal' = None
    /\ Reload
    /\ UNCHANGED <<world, screen, calls, minted, running>>

\* Mutant of SubmitErr: the error is shown, the form stays locked.
SubmitErrLocked ==
    /\ Unread("error")
    /\ UNCHANGED <<world, screen, loads, modal, calls, minted, running>>

\* formSubmitErr: for the modal that is open, whoever sent it.
SubmitErr ==
    /\ Unread("error")
    /\ modal' = IF modal = None THEN None ELSE [modal EXCEPT !.busy = FALSE]
    /\ UNCHANGED <<world, screen, loads, calls, minted, running>>

Keys ==
    \/ RefreshKey \/ OpenAdd \/ OpenRemove \/ OpenEdit \/ OpenTest \/ TestAlert
    \/ Toggle \/ Quit \/ Escape \/ Choose \/ Fire \/ Submit

Next ==
    \/ Keys
    \/ \E call \in BagToSet(calls) : Serve(call) \/ TimeOut(call)
    \/ \E e \in Entry : ChangedElsewhere(e)
    \/ CatchUp
    \/ \E of \in {"status", "config"} : Loaded(of)
    \/ Tick \/ Done \/ SubmitErr

TickAnswered(of) == Tick /\ [of |-> of, got |-> local] \in loads'

\* Loads succeed again and again, their answers are handled, and replication
\* delivers.  No key is promised, nor an answer of the daemon.
Fairness ==
    /\ WF_vars(CatchUp)
    /\ \A of \in {"status", "config"} : SF_vars(TickAnswered(of)) /\ WF_vars(Loaded(of))

Spec == Init /\ [][Next]_vars
FairSpec == Spec /\ Fairness

-----------------------------------------------------------------------------
(* Properties. *)

\* A form that says it is working will hear how that went: a call that ends,
\* by its deadline at the latest, or an answer that is there is still to come,
\* whatever was answered late, closed early or refused.  The answer to an
\* abandoned form may close or unlock another one, but none takes away the
\* answer a form waits for and leaves it locked (forms.go:55, :373-397).
FormsAreAnswered ==
    modal # None /\ modal.busy
        => \/ \E call \in BagToSet(calls) : call.for = "form"
           \/ answers["done"] > 0 \/ answers["error"] > 0

\* When the configuration stops changing, the rows and the records both end
\* as it is, although answers overtake each other, loads fail and the reload
\* after a write reads a node that has not caught up (tui.go:130-177).
DisplayCatchesUp ==
    <>[][FALSE]_store => <>(~running \/ [](status = store /\ records = store))
=============================================================================
