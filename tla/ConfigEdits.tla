----------------------------- MODULE ConfigEdits -----------------------------
(***************************************************************************)
(* Operators editing the checks, alerts and peers of a cluster, with the   *)
(* commands of internal/cli and the forms and keys of internal/tui.        *)
(*                                                                         *)
(* Every edit is a read-modify-write of a whole record across three        *)
(* processes: the record is read from the cluster.yaml of the operator's   *)
(* own host, which may lag behind the master, is changed by the operator   *)
(* in his own time, and is committed at the master, which replaces         *)
(* whatever entry has that ID or that name by then.  Replication is the    *)
(* promise of ConfigLog with one master: a host's copy moves to the        *)
(* newest configuration at any time, or not yet.                           *)
(*                                                                         *)
(* What no edit changes, because no command and no form asks for it, is    *)
(* set otherwise: in the file by hand, which the watcher of that host      *)
(* sends to the master as a replace_config, or, for the certificate of a   *)
(* peer, by an approved enrollment.  The save and the watcher's next look  *)
(* are one step here; ManualEdit has what comes between them.              *)
(***************************************************************************)
EXTENDS EntryRules, FiniteSets

CONSTANTS
    Node,        \* hosts of the cluster
    Operator,    \* those where somebody is editing
    Master,      \* the one that commits
    Id,          \* the IDs of entries, old and new
    Name,        \* the names operators give checks and alerts
    Target,      \* the rest of what any edit may change
    AlertLists,  \* the AlertIDs operators give checks
    Suppressed,  \* the SuppressAlertIDs operators write into files
    Cert,        \* the certificates of nodes, with their fingerprints
    Resolver,    \* resolver lists
    None,        \* no resolver list, no edit under way
    Initial,     \* the configuration to start from
    MaxVersion   \* bound on the commits

Type == {"discord", "smtp"}
Ref == Id \union Name

\* PeerInfo, Check and Alert.  The target stands for all the fields that any
\* edit may change.
Record ==
    [check |-> [id : Id, name : Name, target : Target, alerts : AlertLists,
                suppress : Suppressed, resolvers : Resolver \union {None},
                disabled : BOOLEAN],
     alert |-> [id : Id, name : Name, target : Target, type : Type,
                default : BOOLEAN, disabled : BOOLEAN],
     peer  |-> [id : Id, target : Target, cert : Cert]]
Kind == DOMAIN Record
Config == [check : Seq(Record.check), alert : Seq(Record.alert),
           peer : Seq(Record.peer), resolvers : Resolver \union {None}]

ASSUME NodeAssumption == Master \in Node /\ Operator \subseteq Node
ASSUME NamesAssumption == Id \intersect Name = {} /\ None \notin Ref \union Resolver
ASSUME ListsAssumption == AlertLists \subseteq Seq(Ref) /\ {} \in Suppressed /\ Suppressed \subseteq SUBSET Ref
ASSUME InitialAssumption ==
    /\ Initial \in Config
    /\ \A kind \in Kind : Unique(Initial[kind])
ASSUME BoundsAssumption == MaxVersion \in Nat

-----------------------------------------------------------------------------
(* What an operator can make of the record e.                              *)

Agree(e, f, fields) == \A x \in fields \intersect DOMAIN e : e[x] = f[x]
Keeping(kind, e, fields) == {f \in Record[kind] : Agree(e, f, fields)}

\* The value of a field that a record is built without.
Zero == [disabled |-> FALSE, suppress |-> {}, resolvers |-> None]
Without(records, fields) == {f \in records : Agree(f, Zero, fields)}

\* The commands change the record they read: what has no flag stays.
CheckEdit(e) == Keeping("check", e, {"id", "suppress", "disabled"})
AlertEdit(e) == Keeping("alert", e, {"id", "type", "disabled"})
NodeEdit(e)  == Keeping("peer", e, {"id", "cert"})
CheckToggle(e)  == {[e EXCEPT !.disabled = d] : d \in BOOLEAN \ {e.disabled}}
AlertToggle(e)  == {[e EXCEPT !.disabled = d] : d \in BOOLEAN \ {e.disabled}}
AlertDefault(e) == {[e EXCEPT !.default = d] : d \in BOOLEAN}

\* So do the keys x and D.
ToggleSelectedCheck(e)   == {[e EXCEPT !.disabled = ~ @]}
ToggleSelectedAlert(e)   == {[e EXCEPT !.disabled = ~ @]}
ToggleSelectedDefault(e) == {[e EXCEPT !.default = ~ @]}

\* Mutant of EditCheckForm: the suppressions are not carried over.
EditCheckFormUnsuppressed(e) ==
    Without(Keeping("check", e, {"id"}), {"disabled", "resolvers", "suppress"})

\* The forms build a new record from their fields and the little they
\* remember: what they do not show is lost.
EditCheckForm(e) ==
    Without(Keeping("check", e, {"id", "suppress"}), {"disabled", "resolvers"})

\* Mutant of EditDiscordForm: the type is not set.
EditDiscordFormTypeless(e) == {[e EXCEPT !.type = None]}

EditDiscordForm(e) == Without(Keeping("alert", e, {"id", "type"}), {"disabled"})
EditSMTPForm(e)    == Without(Keeping("alert", e, {"id", "type"}), {"disabled"})
EditNodeForm(e)    == Keeping("peer", e, {"id", "cert"})

\* The edits that change one bit count as one, whoever they are made by.
How == [check |-> {"command", "form", "toggle"},
        alert |-> {"command", "form", "toggle"},
        peer  |-> {"command", "form"}]
Edits(kind, how, e) ==
    CASE kind = "check" /\ how = "command" -> CheckEdit(e)
      [] kind = "check" /\ how = "form"    -> EditCheckForm(e)
      [] kind = "check" /\ how = "toggle"  -> CheckToggle(e) \union ToggleSelectedCheck(e)
      [] kind = "alert" /\ how = "command" -> AlertEdit(e)
      [] kind = "alert" /\ how = "form"    ->
            IF e.type = "discord" THEN EditDiscordForm(e) ELSE EditSMTPForm(e)
      [] kind = "alert" /\ how = "toggle"  ->
            UNION {AlertToggle(e), AlertDefault(e), ToggleSelectedAlert(e), ToggleSelectedDefault(e)}
      [] kind = "peer"  /\ how = "command" -> NodeEdit(e)
      [] kind = "peer"  /\ how = "form"    -> EditNodeForm(e)

\* What can be added, apart from the new ID.  Peers are added by enrollment.
CheckAdd       == Without(Record.check, {"disabled", "suppress"})
AddCheckForm   == Without(Record.check, {"disabled", "suppress", "resolvers"})
SMTPAdd        == {f \in Without(Record.alert, {"disabled"}) : f.type = "smtp"}
DiscordAdd     == {f \in Without(Record.alert, {"disabled"}) : f.type = "discord"}
AddSMTPForm    == SMTPAdd
AddDiscordForm == DiscordAdd
Additions == [check |-> CheckAdd \union AddCheckForm,
              alert |-> UNION {SMTPAdd, DiscordAdd, AddSMTPForm, AddDiscordForm},
              peer  |-> {}]

-----------------------------------------------------------------------------
VARIABLES
    copy,     \* the cluster.yaml of each host; the master's is the newest
    read,     \* the version of the configuration that is in it
    version,  \* commits so far
    used,     \* IDs given out
    session,  \* the edit each operator has under way, and the version it
              \* was read from
    renamed,  \* history: whether an edit or a hand edit gave an entry another
              \* name, or gave a name or an ID twice
    boundAt   \* history: the version that last changed what is bound of an ID,
              \* by a hand edit, an approval, or an edit read before the last
              \* such change

vars == <<copy, read, version, used, session, renamed, boundAt>>

Session ==
    UNION {[kind : {kind}, how : How[kind], entry : Record[kind], base : 0 .. MaxVersion]
             : kind \in Kind}

TypeOK ==
    /\ copy \in [Node -> Config]
    /\ read \in [Node -> 0 .. MaxVersion]
    /\ version \in 0 .. MaxVersion
    /\ used \subseteq Id
    /\ session \in [Operator -> Session \union {None}]
    /\ renamed \in BOOLEAN
    /\ boundAt \in [Kind -> [Id -> 0 .. MaxVersion]]
    /\ \A n \in Node, kind \in Kind : \A e \in Range(copy[n][kind]) : e.id \in used

Ids(entries) == {e.id : e \in entries}

Init ==
    /\ copy = [n \in Node |-> Initial]
    /\ read = [n \in Node |-> 0]
    /\ version = 0
    /\ used = UNION {Ids(Range(Initial[kind])) : kind \in Kind}
    /\ session = [n \in Operator |-> None]
    /\ renamed = FALSE
    /\ boundAt = [kind \in Kind |-> [i \in Id |-> 0]]

\* What no edit may change: the suppressions of a check, the type of an alert
\* and the certificate of a peer.
Bound == [check |-> {"id", "suppress"}, alert |-> {"id", "type"}, peer |-> {"id", "cert"}]

\* Everything of a kind that is in a copy or in an operator's hands.
Edited(kind) == {n \in Operator : session[n] # None /\ session[n].kind = kind}
Records(kind) ==
    (UNION {Range(copy[n][kind]) : n \in Node}) \union {session[n].entry : n \in Edited(kind)}

\* What was read after all that is bound of its ID was last changed.
Fresh(kind) ==
    {e \in Records(kind) :
        \/ \E n \in Node : e \in Range(copy[n][kind]) /\ read[n] >= boundAt[kind][e.id]
        \/ \E n \in Edited(kind) : e = session[n].entry /\ session[n].base >= boundAt[kind][e.id]}

\* The IDs of which a list that comes to the master sets what is bound.
Binds(kind, list) ==
    Ids({e \in Range(list) : ~ \E f \in Range(copy[Master][kind]) :
                                  e.id = f.id /\ Agree(e, f, Bound[kind])})

\* Whether it gives a name or an ID twice, or to an entry that has another
\* name anywhere.
Renames(kind, list) ==
    \/ ~ Unique(list)
    \/ \E e \in Range(list), f \in Records(kind) : e.id = f.id /\ ~ Agree(e, f, {"name"})

-----------------------------------------------------------------------------
\* Mutate at the master, for a mutation that makes list of the entries.
Commit(kind, list) ==
    /\ version < MaxVersion
    /\ version' = version + 1
    /\ copy' = [copy EXCEPT ![Master] = [@ EXCEPT ![kind] = list]]
    /\ read' = [read EXCEPT ![Master] = version + 1]

\* Replace: a broadcast or a pull brings a host up to date.
CatchUp(n) ==
    /\ copy' = [copy EXCEPT ![n] = copy[Master]]
    /\ read' = [read EXCEPT ![n] = version]
    /\ UNCHANGED <<version, used, session, renamed, boundAt>>

\* qu check|alert|node edit, enable, disable and default, and the keys e, x
\* and D: the entry that answers to an ID or a name is read from the file.
Open(n, kind, how, ref) ==
    /\ session[n] = None /\ version < MaxVersion
    /\ how \in How[kind]
    /\ LET list == copy[n][kind]
           at == Find(list, ref)
       IN  /\ at # 0
           /\ session' = [session EXCEPT ![n] = [kind |-> kind, how |-> how,
                                                 entry |-> list[at], base |-> read[n]]]
    /\ UNCHANGED <<copy, read, version, used, renamed, boundAt>>

\* The edit reaches the master.  When the answer is lost, or comes too late,
\* a form stays open, with all its fields, to be submitted again.
Submit(n) ==
    /\ session[n] # None /\ version < MaxVersion
    /\ LET kind == session[n].kind
           i == session[n].entry.id
       IN  /\ \E e \in Edits(kind, session[n].how, session[n].entry) :
                 /\ Commit(kind, Upsert(copy[Master][kind], e))
                 /\ renamed' = (renamed \/ ~ Agree(e, session[n].entry, {"name"}))
           /\ boundAt' = IF session[n].base < boundAt[kind][i]
                         THEN [boundAt EXCEPT ![kind] = [@ EXCEPT ![i] = version + 1]]
                         ELSE boundAt
    /\ \/ session' = [session EXCEPT ![n] = None]
       \/ session[n].how = "form" /\ UNCHANGED session
    /\ UNCHANGED used

\* The operator, or the command after an error, gives the edit up.
Abandon(n) ==
    /\ session[n] # None
    /\ session' = [session EXCEPT ![n] = None]
    /\ UNCHANGED <<copy, read, version, used, renamed, boundAt>>

\* qu check add, qu alert add and their forms: the ID is a new UUID.
AddEntry(kind, e) ==
    /\ e.id \notin used
    /\ Commit(kind, Upsert(copy[Master][kind], e))
    /\ used' = used \union {e.id}
    /\ UNCHANGED <<session, renamed, boundAt>>

\* qu check remove and qu alert remove, by ID or name; qu node remove.
RemoveEntry(kind, ref) ==
    /\ Find(copy[Master][kind], ref) # 0
    /\ Commit(kind, Drop(copy[Master][kind], ref))
    /\ UNCHANGED <<used, session, renamed, boundAt>>

\* The key d: the row under the cursor is removed by its ID.
RemoveSelected(n, kind, k) ==
    /\ k \in DOMAIN copy[n][kind]
    /\ RemoveEntry(kind, copy[n][kind][k].id)

\* qu cluster resolvers set and clear.
SetResolvers(r) ==
    /\ r # copy[Master].resolvers
    /\ Commit("resolvers", r)
    /\ UNCHANGED <<used, session, renamed, boundAt>>

\* What an operator makes of a list by hand: an entry with another name or with
\* something else that is bound, one entry less, or one more.
ByHand(kind, list) ==
    (UNION {{ReplaceAt(list, k, f) : f \in UNION {Keeping(kind, list[k], DOMAIN list[k] \ {x})
                                                     : x \in (Bound[kind] \union {"name"}) \ {"id"}}}
              : k \in DOMAIN list})
    \union {RemoveAt(list, k) : k \in DOMAIN list}
    \union {Append(list, e) : e \in {f \in Without(Record[kind], {"disabled", "resolvers"}) : f.id \notin used}}

\* The cluster.yaml of a host is saved by hand, and its watcher forwards the
\* lists in it, however old, without the resolvers: at the master they
\* replace everything.
HandEdit(n, kind) ==
    /\ version < MaxVersion
    /\ \E list \in ByHand(kind, copy[n][kind]) \ {copy[n][kind]} :
       LET file == [copy[n] EXCEPT ![kind] = list]
       IN  /\ copy' = [copy EXCEPT ![n] = file, ![Master] = [file EXCEPT !.resolvers = None]]
           /\ boundAt' = [k \in Kind |->
                             LET bound == Binds(k, file[k])
                             IN  [i \in Id |-> IF i \in bound THEN version + 1 ELSE boundAt[k][i]]]
           /\ renamed' = (renamed \/ \E k \in Kind : Renames(k, file[k]))
           /\ used' = used \union Ids(Range(list))
    /\ version' = version + 1
    /\ read' = [read EXCEPT ![n] = version + 1, ![Master] = version + 1]
    /\ UNCHANGED session

\* An approved enrollment adds the joiner, or replaces the peer that has its ID
\* (approve_enrollment); Enrollment has when.
Approve(e) ==
    /\ e.id \notin used \/ \E f \in Records("peer") : f.id = e.id
    /\ Commit("peer", Upsert(copy[Master].peer, e))
    /\ used' = used \union {e.id}
    /\ boundAt' = IF e.id \in Binds("peer", <<e>>)
                  THEN [boundAt EXCEPT !["peer"] = [@ EXCEPT ![e.id] = version + 1]]
                  ELSE boundAt
    /\ UNCHANGED <<session, renamed>>

Next ==
    \/ \E n \in Node : CatchUp(n)
    \/ \E n \in Operator : Submit(n) \/ Abandon(n)
    \/ \E n \in Operator, kind \in Kind, ref \in Ref :
          \E how \in How[kind] : Open(n, kind, how, ref)
    \/ \E kind \in Kind : \E e \in Additions[kind] : AddEntry(kind, e)
    \/ \E kind \in Kind, ref \in Ref : RemoveEntry(kind, ref)
    \/ \E n \in Node, kind \in Kind : \E k \in DOMAIN copy[n][kind] : RemoveSelected(n, kind, k)
    \/ \E r \in Resolver \union {None} : SetResolvers(r)
    \/ \E n \in Node, kind \in Kind : HandEdit(n, kind)
    \/ \E e \in Record.peer : Approve(e)

Spec == Init /\ [][Next]_vars

-----------------------------------------------------------------------------
\* As long as nobody renames anything, IDs and names stay unique at the
\* master, whatever is written by hand, added under a name that is taken, removed and edited
\* from old copies at the same time (docs/configuration.md:216 asks for
\* unique names; only the upsert of the add mutations keeps them so).
UniqueUntilRenamed ==
    renamed \/ \A kind \in Kind : Unique(copy[Master][kind])

\* Whoever has read an entry since its suppressions, its type or its
\* certificate were last set has them as they are, whichever commands, forms
\* and keys changed it after that: an edit can undo what was set by hand or
\* approved only if it was read before, and then everybody who reads on has
\* the older ones (cli/node.go:72-75, cli/alert.go:213-215; tui/forms.go:680
\* carries the suppressions of its copy along).
BoundFieldsAgree ==
    renamed \/ \A kind \in Kind : \A e, f \in Fresh(kind) :
                  e.id = f.id => Agree(e, f, Bound[kind])

\* The alerts a check notifies are those of the formula in
\* docs/configuration.md:495-499 as long as IDs and names are unique, and
\* never twice one ID, even when they are not (EffectiveAlertsFor).
NotifiesAsDocumented ==
    \A n \in Node : \A c \in Range(copy[n].check) :
        LET alerts == copy[n].alert
            out == EffectiveAlertsFor(alerts, c)
        IN  /\ Unique(alerts) => Range(out) = DocumentedAlertsFor(alerts, c)
            /\ \A i, k \in DOMAIN out : i # k => out[i].id # out[k].id
===============================================================================
