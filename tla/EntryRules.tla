------------------------------ MODULE EntryRules ------------------------------
(***************************************************************************)
(* The lists of a configuration as pure functions: what the add and remove *)
(* mutations of internal/replicate/replicator.go do to one, and which      *)
(* alerts of the list a check notifies (internal/config/cluster.go).       *)
(*                                                                         *)
(* An entry is a record with an id and a name; a reference is either.      *)
(***************************************************************************)
EXTENDS Integers, Sequences, SequencesExt

\* The fields an entry is found by; peers have no name.
KeyFields(e) == {"id", "name"} \intersect DOMAIN e
Answers(e, ref) == \E f \in KeyFields(e) : e[f] = ref

Unique(list) ==
    \A i, k \in DOMAIN list :
        i # k => \A f \in KeyFields(list[i]) : list[i][f] # list[k][f]

\* Mutant of Upsert: the name of the new entry is not looked for.
UpsertById(list, e) ==
    LET at == SelectInSeq(list, LAMBDA x : x.id = e.id)
    IN  IF at = 0 THEN Append(list, e) ELSE ReplaceAt(list, at, e)

\* The add mutations of checks, alerts and peers: the first entry with the ID
\* or the name of e makes way for it; without one, e is appended.
Upsert(list, e) ==
    LET at == SelectInSeq(list, LAMBDA x : \E f \in KeyFields(e) : x[f] = e[f])
    IN  IF at = 0 THEN Append(list, e) ELSE ReplaceAt(list, at, e)

\* The remove mutations.  Without a match they fail, which leaves the list as
\* it is.
Drop(list, ref) == RemoveFirstMatch(list, LAMBDA x : Answers(x, ref))

\* FindAlert, and the lookups of the commands: the place of the first match,
\* or 0.
Find(list, ref) == SelectInSeq(list, LAMBDA x : Answers(x, ref))

Firsts(list, refs) ==
    FoldLeft(LAMBDA out, ref : LET at == Find(list, ref)
                               IN  IF at = 0 THEN out ELSE Append(out, list[at]),
             <<>>, refs)

\* Mutant of EffectiveAlertsFor: an alert that is both listed and a default
\* is notified twice.
EffectiveTwice(list, check) ==
    SelectSeq(Firsts(list, check.alerts) \o SelectSeq(list, LAMBDA a : a.default),
              LAMBDA a : ~ a.disabled /\ {a.id, a.name} \intersect check.suppress = {})

\* EffectiveAlertsFor: the alerts a check notifies, in order.
EffectiveAlertsFor(list, check) ==
    FoldLeft(LAMBDA out, a :
                 IF a.disabled \/ {a.id, a.name} \intersect check.suppress # {}
                    \/ \E k \in DOMAIN out : out[k].id = a.id
                 THEN out ELSE Append(out, a),
             <<>>,
             Firsts(list, check.alerts) \o SelectSeq(list, LAMBDA a : a.default))

\* The same as docs/configuration.md gives it.
DocumentedAlertsFor(list, check) ==
    {a \in Range(list) : /\ a.default \/ \E ref \in Range(check.alerts) : Answers(a, ref)
                         /\ ~ \E ref \in check.suppress : Answers(a, ref)
                         /\ ~ a.disabled}
===============================================================================
