-------------------------- MODULE ConfigEditsProofs --------------------------
(***************************************************************************)
(* What the read-modify-write of whole records keeps, for any number of    *)
(* hosts, operators and entries and however old the copies are that are    *)
(* edited: until somebody renames an entry, the uniqueness of IDs and      *)
(* names at the master, and the fields that are set by hand or approved,   *)
(* for everybody who has read the entry since.                             *)
(*                                                                         *)
(* The argument is that whatever comes to the master agrees on these with  *)
(* a record that was read since they were last set, or sets them at a      *)
(* version that nobody has read before; and that all records of one ID, in *)
(* every copy and in every operator's hands, have one name.                *)
(***************************************************************************)
EXTENDS ConfigEdits, SequenceTheorems, WellFoundedInduction, TLAPS

\* As long as nobody has renamed an entry, all records of one ID have one name.
NamesAgree ==
    renamed \/ \A kind \in Kind : \A e, f \in Records(kind) :
                  e.id = f.id => Agree(e, f, {"name"})

\* What anybody has in his hands was given its ID before.
RecordsKnown == \A kind \in Kind : \A e \in Records(kind) : e.id \in used

\* Nothing was read or bound at a version that is not there yet.
Versions ==
    /\ read[Master] = version
    /\ \A n \in Node : read[n] =< version
    /\ \A n \in Operator : session[n] # None => session[n].base =< version
    /\ \A kind \in Kind, i \in Id : boundAt[kind][i] =< version

IInv == TypeOK /\ Versions /\ RecordsKnown /\ NamesAgree /\ BoundFieldsAgree /\ UniqueUntilRenamed

-----------------------------------------------------------------------------
(* The records.                                                            *)

\* Records of a kind have the same fields, an ID among them.
LEMMA RecordFacts ==
    ASSUME NEW kind \in Kind, NEW e \in Record[kind], NEW f \in Record[kind]
    PROVE  /\ DOMAIN e = DOMAIN f /\ KeyFields(e) = KeyFields(f)
           /\ e.id \in Id /\ "id" \in KeyFields(e)
           /\ KeyFields(e) \subseteq {"id", "name"}
           /\ "id" \in Bound[kind] /\ "id" \in DOMAIN e
           /\ "name" \in DOMAIN e <=> "name" \in KeyFields(e)
<1>1. kind \in {"check", "alert", "peer"}
  BY DEF Kind, Record
<1>2. CASE kind = "check"
  BY <1>2 DEF Record, KeyFields, Bound
<1>3. CASE kind = "alert"
  BY <1>3 DEF Record, KeyFields, Bound
<1>4. CASE kind = "peer"
  BY <1>4 DEF Record, KeyFields, Bound
<1>5. QED
  BY <1>1, <1>2, <1>3, <1>4

\* Agreement is an equivalence among the records of a kind.
LEMMA AgreeFacts ==
    ASSUME NEW kind \in Kind, NEW e \in Record[kind], NEW f \in Record[kind],
           NEW g \in Record[kind], NEW fields
    PROVE  /\ Agree(e, e, fields)
           /\ Agree(e, f, fields) => Agree(f, e, fields)
           /\ Agree(e, f, fields) /\ Agree(f, g, fields) => Agree(e, g, fields)
<1>1. DOMAIN e = DOMAIN f /\ DOMAIN f = DOMAIN g
  BY RecordFacts
<1>2. QED
  BY <1>1 DEF Agree

\* What an edit keeps of a record (buildCheckEditCmd, buildAlertEditCmd,
\* buildNodeEditCmd, the toggles, and the forms of internal/tui).
LEMMA EditsKeep ==
    ASSUME NEW kind \in Kind, NEW how \in How[kind], NEW e \in Record[kind],
           NEW f \in Edits(kind, how, e)
    PROVE  f \in Record[kind] /\ Agree(e, f, Bound[kind])
<1>1. /\ \/ kind = "check" /\ how \in {"command", "form", "toggle"}
         \/ kind = "alert" /\ how \in {"command", "form", "toggle"}
         \/ kind = "peer" /\ how \in {"command", "form"}
  BY DEF Kind, Record, How
<1>2. CASE kind = "check"
  <2>1. CASE how = "command"
    BY <1>2, <2>1 DEF Edits, CheckEdit, Keeping, Agree, Bound
  <2>2. CASE how = "form"
    BY <1>2, <2>2 DEF Edits, EditCheckForm, Keeping, Without, Agree, Bound
  <2>3. CASE how = "toggle"
    <3>1. f \in CheckToggle(e) \union ToggleSelectedCheck(e)
      BY <1>2, <2>3 DEF Edits
    <3>2. e.disabled \in BOOLEAN
      BY <1>2 DEF Record
    <3>3. PICK d \in BOOLEAN : f = [e EXCEPT !.disabled = d]
      BY <3>1, <3>2 DEF CheckToggle, ToggleSelectedCheck
    <3>4. QED
      BY <1>2, <3>3 DEF Record, Agree, Bound
  <2>4. QED
    BY <1>1, <1>2, <2>1, <2>2, <2>3
<1>3. CASE kind = "alert"
  <2>1. CASE how = "command"
    BY <1>3, <2>1 DEF Edits, AlertEdit, Keeping, Agree, Bound
  <2>2. CASE how = "form"
    BY <1>3, <2>2 DEF Edits, EditDiscordForm, EditSMTPForm, Keeping, Without, Agree, Bound
  <2>3. CASE how = "toggle"
    <3>1. \/ f \in AlertToggle(e) \/ f \in AlertDefault(e)
          \/ f \in ToggleSelectedAlert(e) \/ f \in ToggleSelectedDefault(e)
      BY <1>3, <2>3 DEF Edits
    <3>2. e.disabled \in BOOLEAN /\ e.default \in BOOLEAN
      BY <1>3 DEF Record
    <3>3. PICK d \in BOOLEAN : f = [e EXCEPT !.disabled = d] \/ f = [e EXCEPT !.default = d]
      BY <3>1, <3>2 DEF AlertToggle, AlertDefault, ToggleSelectedAlert, ToggleSelectedDefault
    <3>4. QED
      BY <1>3, <3>3 DEF Record, Agree, Bound
  <2>4. QED
    BY <1>1, <1>3, <2>1, <2>2, <2>3
<1>4. CASE kind = "peer"
  <2>1. CASE how = "command"
    BY <1>4, <2>1 DEF Edits, NodeEdit, Keeping, Agree, Bound
  <2>2. CASE how = "form"
    BY <1>4, <2>2 DEF Edits, EditNodeForm, Keeping, Agree, Bound
  <2>3. QED
    BY <1>1, <1>4, <2>1, <2>2
<1>5. QED
  BY <1>1, <1>2, <1>3, <1>4

\* What is added is a record of its kind.
LEMMA AdditionsType ==
    ASSUME NEW kind \in Kind, NEW e \in Additions[kind]
    PROVE  e \in Record[kind]
<1>1. kind \in {"check", "alert", "peer"}
  BY DEF Kind, Record
<1>2. QED
  BY <1>1 DEF Additions, CheckAdd, AddCheckForm, SMTPAdd, DiscordAdd, AddSMTPForm,
              AddDiscordForm, Without

-----------------------------------------------------------------------------
(* The lists.                                                              *)

\* The place of a first match is a place.
LEMMA MinOfPlaces ==
    ASSUME NEW I, I \subseteq Nat, I # {}
    PROVE  Min(I) \in I
<1> DEFINE R == {p \in Nat \X Nat : p[1] < p[2]}
<1>1. IsWellFoundedOn(R, Nat)
  BY NatLessThanWellFounded DEF OpToRel
<1>2. PICK x \in I : \A y \in I : ~(<<y, x>> \in R)
  <2> HIDE DEF R
  <2> QED
    BY <1>1, WFMin
<1>3. ASSUME NEW y \in I
      PROVE  x =< y
  <2>1. ~(<<y, x>> \in R)
    BY <1>2
  <2>2. QED
    BY <2>1
<1>4. QED
  BY <1>3 DEF Min

\* What is found is in the list (FindAlert and the lookups).
LEMMA FindFacts ==
    ASSUME NEW S, NEW list \in Seq(S), NEW ref, Find(list, ref) # 0
    PROVE  Find(list, ref) \in 1 .. Len(list)
<1> DEFINE I == {i \in 1 .. Len(list) : Answers(list[i], ref)}
<1>1. Find(list, ref) = IF I # {} THEN Min(I) ELSE 0
  BY DEF Find, SelectInSeq
<1>2. I \subseteq Nat
  BY LenProperties
<1>3. I # {} => Min(I) \in I
  <2> HIDE DEF I
  <2> QED
    BY <1>2, MinOfPlaces
<1>4. QED
  BY <1>1, <1>3

\* An upsert puts the entry in the place of one that has its ID or its name,
\* or, if there is none, at the end.
LEMMA UpsertFacts ==
    ASSUME NEW S, NEW list \in Seq(S), NEW e \in S
    PROVE  \/ /\ Upsert(list, e) = Append(list, e)
              /\ \A i \in 1 .. Len(list) : \A f \in KeyFields(e) : list[i][f] # e[f]
           \/ \E k \in 1 .. Len(list) :
                 /\ Upsert(list, e) = [list EXCEPT ![k] = e]
                 /\ \E f \in KeyFields(e) : list[k][f] = e[f]
<1> DEFINE I == {i \in 1 .. Len(list) : \E f \in KeyFields(e) : list[i][f] = e[f]}
           at == IF I # {} THEN Min(I) ELSE 0
<1>1. Upsert(list, e) = IF at = 0 THEN Append(list, e) ELSE ReplaceAt(list, at, e)
  BY DEF Upsert, SelectInSeq
<1>2. I \subseteq Nat /\ 0 \notin I
  BY LenProperties
<1>3. CASE I = {}
  <2>1. Upsert(list, e) = Append(list, e)
    BY <1>1, <1>3
  <2>2. QED
    BY <1>3, <2>1
<1>4. CASE I # {}
  <2>1. Min(I) \in I
    <3> HIDE DEF I
    <3> QED
      BY <1>2, <1>4, MinOfPlaces
  <2>2. PICK k \in I : k = Min(I)
    BY <2>1
  <2>3. Upsert(list, e) = [list EXCEPT ![k] = e]
    <3> HIDE DEF I
    <3> QED
      BY <1>1, <1>2, <1>4, <2>2 DEF ReplaceAt
  <2>4. QED
    BY <2>2, <2>3
<1>5. QED
  BY <1>3, <1>4

\* A removal leaves the rest in order, or everything.
LEMMA DropFacts ==
    ASSUME NEW S, NEW list \in Seq(S), NEW ref
    PROVE  /\ Drop(list, ref) \in Seq(S)
           /\ \/ Drop(list, ref) = list
              \/ \E k \in 1 .. Len(list) :
                    /\ Len(Drop(list, ref)) = Len(list) - 1
                    /\ \A i \in 1 .. Len(list) - 1 :
                          Drop(list, ref)[i] = list[IF i < k THEN i ELSE i + 1]
<1> DEFINE I == {i \in 1 .. Len(list) : Answers(list[i], ref)}
<1>1. Drop(list, ref) = IF \E i \in 1 .. Len(list) : Answers(list[i], ref)
                        THEN RemoveAt(list, IF I # {} THEN Min(I) ELSE 0) ELSE list
  BY DEF Drop, RemoveFirstMatch, SelectInSeq
<1>2. I \subseteq Nat /\ Len(list) \in Nat
  BY LenProperties
<1>3. CASE I = {}
  <2>1. Drop(list, ref) = list
    BY <1>1, <1>3
  <2>2. QED
    BY <2>1
<1>4. CASE I # {}
  <2>1. Min(I) \in I
    <3> HIDE DEF I
    <3> QED
      BY <1>2, <1>4, MinOfPlaces
  <2>2. PICK k \in 1 .. Len(list) : k = Min(I)
    BY <2>1
  <2> DEFINE left == SubSeq(list, 1, k - 1)
             right == SubSeq(list, k + 1, Len(list))
  <2>3. Drop(list, ref) = left \o right
    <3>1. \E i \in 1 .. Len(list) : Answers(list[i], ref)
      BY <1>4
    <3>2. Drop(list, ref) = RemoveAt(list, k)
      BY <1>1, <1>4, <2>2, <3>1
    <3>3. QED
      BY <3>2 DEF RemoveAt
  <2>4. /\ left \in Seq(S) /\ Len(left) = k - 1
        /\ \A i \in 1 .. k - 1 : left[i] = list[i]
    <3>1. 1 \in Int /\ k - 1 \in Int /\ \A i \in 1 .. k - 1 : list[i] \in S
      BY <1>2, ElementOfSeq
    <3>2. QED
      BY <3>1, SubSeqProperties
  <2>5. /\ right \in Seq(S) /\ Len(right) = Len(list) - k
        /\ \A i \in 1 .. Len(list) - k : right[i] = list[k + i]
    <3>1. k + 1 \in Int /\ Len(list) \in Int /\ \A i \in k + 1 .. Len(list) : list[i] \in S
      BY <1>2, ElementOfSeq
    <3>2. QED
      BY <1>2, <3>1, SubSeqProperties
  <2> HIDE DEF left, right
  <2>6. /\ left \o right \in Seq(S) /\ Len(left \o right) = Len(list) - 1
        /\ \A i \in 1 .. Len(list) - 1 : (left \o right)[i] = list[IF i < k THEN i ELSE i + 1]
    <3>1. /\ left \o right \in Seq(S) /\ Len(left \o right) = Len(left) + Len(right)
          /\ \A i \in 1 .. Len(left) + Len(right) :
                (left \o right)[i] = IF i <= Len(left) THEN left[i] ELSE right[i - Len(left)]
      BY <2>4, <2>5, ConcatProperties
    <3>2. Len(left) + Len(right) = Len(list) - 1
      BY <1>2, <2>4, <2>5
    <3>3. ASSUME NEW i \in 1 .. Len(list) - 1
          PROVE  (left \o right)[i] = list[IF i < k THEN i ELSE i + 1]
      <4>1. CASE i < k
        BY <1>2, <2>4, <3>1, <3>2, <4>1
      <4>2. CASE ~(i < k)
        <5>1. (left \o right)[i] = right[i - (k - 1)]
          BY <1>2, <2>4, <3>1, <3>2, <4>2
        <5>2. i - (k - 1) \in 1 .. Len(list) - k /\ k + (i - (k - 1)) = i + 1
          BY <1>2, <4>2
        <5>3. QED
          BY <2>5, <4>2, <5>1, <5>2
      <4>3. QED
        BY <4>1, <4>2
    <3>4. QED
      BY <3>1, <3>2, <3>3
  <2>7. QED
    BY <2>3, <2>6
<1>5. QED
  BY <1>3, <1>4

\* An upsert keeps the IDs and names of a list unique, if whoever has the ID
\* of the entry also has its name.
LEMMA UpsertUnique ==
    ASSUME NEW kind \in Kind, NEW list \in Seq(Record[kind]), NEW e \in Record[kind],
           Unique(list),
           \A i \in 1 .. Len(list) : list[i].id = e.id => Agree(list[i], e, {"name"})
    PROVE  Unique(Upsert(list, e))
<1> DEFINE S == Record[kind]
           out == Upsert(list, e)
<1>1. DOMAIN list = 1 .. Len(list) /\ Len(list) \in Nat
  BY LenProperties
<1>2. \A i \in 1 .. Len(list) : /\ list[i] \in S
                                /\ KeyFields(list[i]) = KeyFields(e)
                                /\ DOMAIN list[i] = DOMAIN e
  BY ElementOfSeq, RecordFacts
<1>3. /\ KeyFields(e) \subseteq {"id", "name"} /\ "id" \in KeyFields(e)
      /\ "name" \in DOMAIN e <=> "name" \in KeyFields(e)
  BY RecordFacts
<1>4. \A i, k \in 1 .. Len(list) : i # k => \A f \in KeyFields(e) : list[i][f] # list[k][f]
  BY <1>1, <1>2 DEF Unique
<1>5. CASE /\ out = Append(list, e)
           /\ \A i \in 1 .. Len(list) : \A f \in KeyFields(e) : list[i][f] # e[f]
  <2>1. /\ Len(out) = Len(list) + 1 /\ DOMAIN out = 1 .. Len(list) + 1
        /\ \A i \in 1 .. Len(list) : out[i] = list[i]
        /\ out[Len(list) + 1] = e
    BY <1>5, AppendProperties, LenProperties
  <2> HIDE DEF out
  <2>2. SUFFICES ASSUME NEW i \in 1 .. Len(list) + 1, NEW k \in 1 .. Len(list) + 1, i # k,
                        NEW f \in KeyFields(out[i])
                 PROVE  out[i][f] # out[k][f]
    BY <2>1 DEF Unique, out
  <2>3. i \in 1 .. Len(list) \/ k \in 1 .. Len(list)
    BY <1>1, <2>2
  <2>4. f \in KeyFields(e)
    BY <1>1, <1>2, <2>1, <2>2
  <2>5. CASE i \in 1 .. Len(list) /\ k \in 1 .. Len(list)
    BY <1>4, <2>1, <2>2, <2>4, <2>5
  <2>6. CASE i \in 1 .. Len(list) /\ k = Len(list) + 1
    BY <1>5, <2>1, <2>4, <2>6
  <2>7. CASE k \in 1 .. Len(list) /\ i = Len(list) + 1
    BY <1>5, <2>1, <2>4, <2>7
  <2>8. QED
    BY <1>1, <2>2, <2>3, <2>5, <2>6, <2>7
<1>6. ASSUME NEW m \in 1 .. Len(list), out = [list EXCEPT ![m] = e],
             NEW g \in KeyFields(e), list[m][g] = e[g]
      PROVE  Unique(out)
  <2>1. /\ DOMAIN out = 1 .. Len(list) /\ out[m] = e
        /\ \A i \in 1 .. Len(list) : i # m => out[i] = list[i]
    BY <1>1, <1>6
  <2> HIDE DEF out
  <2>2. ASSUME NEW i \in 1 .. Len(list), i # m, NEW f \in KeyFields(e)
        PROVE  list[i][f] # e[f]
    <3>1. list[i][g] # e[g]
      BY <1>4, <1>6, <2>2
    <3>2. list[i].id = e.id => g # "name"
      BY <1>2, <1>3, <2>2, <3>1 DEF Agree
    <3>3. list[i].id # e.id
      BY <1>3, <3>1, <3>2
    <3>4. CASE g = "name"
      BY <1>3, <3>1, <3>3, <3>4
    <3>5. CASE g = "id"
      <4>1. "name" \in DOMAIN e => list[m]["name"] = e["name"]
        BY <1>2, <1>6, <3>5 DEF Agree
      <4>2. "name" \in KeyFields(e) => list[i]["name"] # e["name"]
        BY <1>3, <1>4, <2>2, <4>1
      <4>3. QED
        BY <1>3, <3>3, <4>2
    <3>6. QED
      BY <1>3, <3>4, <3>5
  <2>3. SUFFICES ASSUME NEW i \in 1 .. Len(list), NEW k \in 1 .. Len(list), i # k,
                        NEW f \in KeyFields(out[i])
                 PROVE  out[i][f] # out[k][f]
    BY <2>1 DEF Unique, out
  <2>4. f \in KeyFields(e)
    BY <1>2, <2>1, <2>3
  <2>5. CASE i = m
    BY <2>1, <2>2, <2>3, <2>4, <2>5
  <2>6. CASE k = m
    BY <2>1, <2>2, <2>3, <2>4, <2>6
  <2>7. CASE i # m /\ k # m
    BY <1>4, <2>1, <2>3, <2>4, <2>7
  <2>8. QED
    BY <2>5, <2>6, <2>7
<1>7. ASSUME NEW m \in 1 .. Len(list), out = [list EXCEPT ![m] = e],
             \E g \in KeyFields(e) : list[m][g] = e[g]
      PROVE  Unique(out)
  <2>1. PICK g \in KeyFields(e) : list[m][g] = e[g]
    BY <1>7
  <2>2. QED
    BY <1>6, <1>7, <2>1
<1>8. CASE \E m \in 1 .. Len(list) : /\ out = [list EXCEPT ![m] = e]
                                     /\ \E g \in KeyFields(e) : list[m][g] = e[g]
  <2>1. PICK m \in 1 .. Len(list) : /\ out = [list EXCEPT ![m] = e]
                                    /\ \E g \in KeyFields(e) : list[m][g] = e[g]
    BY <1>8
  <2>2. QED
    BY <1>7, <2>1
<1>9. QED
  BY <1>5, <1>8, UpsertFacts

\* Nothing is in a list after an upsert but what was there, and the entry.
LEMMA UpsertRange ==
    ASSUME NEW S, NEW list \in Seq(S), NEW e \in S
    PROVE  Upsert(list, e) \in Seq(S) /\ Range(Upsert(list, e)) \subseteq Range(list) \union {e}
<1>1. CASE Upsert(list, e) = Append(list, e)
  <2>1. /\ Append(list, e) \in Seq(S) /\ Len(Append(list, e)) = Len(list) + 1
        /\ \A i \in 1 .. Len(list) : Append(list, e)[i] = list[i]
        /\ Append(list, e)[Len(list) + 1] = e
    BY AppendProperties
  <2>2. /\ DOMAIN list = 1 .. Len(list) /\ Len(list) \in Nat
        /\ DOMAIN Append(list, e) = 1 .. Len(list) + 1
    BY <2>1, LenProperties
  <2>3. QED
    BY <1>1, <2>1, <2>2 DEF Range
<1>2. ASSUME NEW k \in 1 .. Len(list), Upsert(list, e) = [list EXCEPT ![k] = e]
      PROVE  /\ Upsert(list, e) \in Seq(S)
             /\ Range(Upsert(list, e)) \subseteq Range(list) \union {e}
  <2>1. [list EXCEPT ![k] = e] \in Seq(S)
    BY ExceptSeq
  <2>2. Range([list EXCEPT ![k] = e]) \subseteq Range(list) \union {e}
    BY LenProperties DEF Range
  <2>3. QED
    BY <1>2, <2>1, <2>2
<1>3. QED
  BY <1>1, <1>2, UpsertFacts

\* Nor after a removal, which keeps IDs and names unique.
LEMMA DropUnique ==
    ASSUME NEW kind \in Kind, NEW list \in Seq(Record[kind]), NEW ref
    PROVE  /\ Drop(list, ref) \in Seq(Record[kind])
           /\ Range(Drop(list, ref)) \subseteq Range(list)
           /\ Unique(list) => Unique(Drop(list, ref))
<1> DEFINE S == Record[kind]
           out == Drop(list, ref)
<1>1. /\ out \in Seq(S)
      /\ \/ out = list
         \/ \E k \in 1 .. Len(list) :
               /\ Len(out) = Len(list) - 1
               /\ \A i \in 1 .. Len(list) - 1 : out[i] = list[IF i < k THEN i ELSE i + 1]
  BY DropFacts
<1> HIDE DEF out
<1>2. ASSUME NEW k \in 1 .. Len(list), Len(out) = Len(list) - 1,
             \A i \in 1 .. Len(list) - 1 : out[i] = list[IF i < k THEN i ELSE i + 1]
      PROVE  Range(out) \subseteq Range(list) /\ (Unique(list) => Unique(out))
  <2> DEFINE p(i) == IF i < k THEN i ELSE i + 1
  <2>1. /\ DOMAIN out = 1 .. Len(list) - 1 /\ DOMAIN list = 1 .. Len(list)
        /\ Len(list) \in Nat
    BY <1>1, <1>2, LenProperties
  <2>2. /\ \A i \in 1 .. Len(list) - 1 : p(i) \in 1 .. Len(list) /\ out[i] = list[p(i)]
        /\ \A i, j \in 1 .. Len(list) - 1 : i # j => p(i) # p(j)
    BY <1>2, <2>1
  <2> HIDE DEF p
  <2>3. Range(out) \subseteq Range(list)
    BY <2>1, <2>2 DEF Range
  <2>4. Unique(list) => Unique(out)
    BY <2>1, <2>2 DEF Unique
  <2>5. QED
    BY <2>3, <2>4
<1>3. Range(out) \subseteq Range(list) /\ (Unique(list) => Unique(out))
  BY <1>1, <1>2
<1>4. QED
  BY <1>1, <1>3 DEF out

-----------------------------------------------------------------------------
(* The state.                                                              *)

LEMMA KindFacts == Kind = {"check", "alert", "peer"} /\ "resolvers" \notin Kind
  BY DEF Kind, Record

\* The lists of a configuration.
LEMMA ConfigFacts ==
    ASSUME NEW c \in Config
    PROVE  /\ \A kind \in Kind : c[kind] \in Seq(Record[kind])
           /\ \A r \in Resolver \union {None} :
                 /\ [c EXCEPT !["resolvers"] = r] \in Config
                 /\ \A k \in Kind : [c EXCEPT !["resolvers"] = r][k] = c[k]
<1>1. \A kind \in Kind : c[kind] \in Seq(Record[kind])
  BY KindFacts DEF Config
<1>2. DOMAIN c = {"check", "alert", "peer", "resolvers"}
  BY DEF Config
<1>3. ASSUME NEW r \in Resolver \union {None}
      PROVE  /\ [c EXCEPT !["resolvers"] = r] \in Config
             /\ \A k \in Kind : [c EXCEPT !["resolvers"] = r][k] = c[k]
  BY <1>2, KindFacts DEF Config
<1>4. QED
  BY <1>1, <1>3

LEMMA ConfigWith ==
    ASSUME NEW c \in Config, NEW kind \in Kind, NEW list \in Seq(Record[kind])
    PROVE  /\ [c EXCEPT ![kind] = list] \in Config
           /\ [c EXCEPT ![kind] = list][kind] = list
           /\ \A k \in Kind \ {kind} : [c EXCEPT ![kind] = list][k] = c[k]
<1>1. [c EXCEPT ![kind] = list] \in Config
  <2>1. CASE kind = "check"
    BY <2>1 DEF Config
  <2>2. CASE kind = "alert"
    BY <2>2 DEF Config
  <2>3. CASE kind = "peer"
    BY <2>3 DEF Config
  <2>4. QED
    BY <2>1, <2>2, <2>3, KindFacts
<1>2. DOMAIN c = {"check", "alert", "peer", "resolvers"}
  BY DEF Config
<1>3. QED
  BY <1>1, <1>2, KindFacts

\* An edit under way.
LEMMA SessionFacts ==
    ASSUME NEW x \in Session
    PROVE  /\ x.kind \in Kind /\ x.how \in How[x.kind] /\ x.entry \in Record[x.kind]
           /\ x.base \in 0 .. MaxVersion
  BY DEF Session

\* What is in a copy or in an operator's hands is a record of its kind.
LEMMA RecordsFacts ==
    ASSUME TypeOK
    PROVE  /\ \A kind \in Kind : Records(kind) \subseteq Record[kind]
           /\ \A n \in Node, kind \in Kind : Range(copy[n][kind]) \subseteq Records(kind)
           /\ \A n \in Operator : session[n] # None
                 => session[n].kind \in Kind /\ session[n].entry \in Records(session[n].kind)
<1>1. ASSUME NEW kind \in Kind, NEW e \in Records(kind)
      PROVE  e \in Record[kind]
  <2>1. CASE \E n \in Node : e \in Range(copy[n][kind])
    <3>1. PICK n \in Node : e \in Range(copy[n][kind])
      BY <2>1
    <3>2. copy[n][kind] \in Seq(Record[kind])
      BY ConfigFacts DEF TypeOK
    <3>3. QED
      BY <3>1, <3>2, RangeOfSeq
  <2>2. CASE \E m \in Operator : session[m] # None /\ session[m].kind = kind /\ e = session[m].entry
    <3>1. PICK m \in Operator : session[m] # None /\ session[m].kind = kind /\ e = session[m].entry
      BY <2>2
    <3>2. session[m] \in Session
      BY <3>1 DEF TypeOK
    <3>3. QED
      BY <3>1, <3>2, SessionFacts
  <2>3. QED
    BY <2>1, <2>2 DEF Records, Edited
<1>2. ASSUME NEW n \in Operator, session[n] # None
      PROVE  session[n].kind \in Kind /\ session[n].entry \in Records(session[n].kind)
  <2>1. session[n] \in Session
    BY <1>2 DEF TypeOK
  <2>2. session[n].kind \in Kind
    BY <2>1, SessionFacts
  <2>3. session[n].entry \in Records(session[n].kind)
    BY <1>2 DEF Records, Edited
  <2>4. QED
    BY <2>2, <2>3
<1>3. \A n \in Node, kind \in Kind : Range(copy[n][kind]) \subseteq Records(kind)
  BY DEF Records
<1>4. QED
  BY <1>1, <1>2, <1>3

-----------------------------------------------------------------------------
(* The steps.                                                              *)

\* In a list of unique IDs two entries of one ID are one.
LEMMA UniqueSame ==
    ASSUME NEW kind \in Kind, NEW list \in Seq(Record[kind]), Unique(list),
           NEW e \in Range(list), NEW f \in Range(list), e.id = f.id
    PROVE  e = f
<1>1. e \in Record[kind]
  BY RangeOfSeq
<1>2. "id" \in KeyFields(e)
  BY <1>1, RecordFacts
<1>3. PICK i \in DOMAIN list, k \in DOMAIN list : e = list[i] /\ f = list[k]
  BY DEF Range
<1>4. i = k
  BY <1>2, <1>3 DEF Unique
<1>5. QED
  BY <1>3, <1>4

\* Nobody has an entry of that ID.
New(kind, i) == \A f \in Records(kind) : f.id # i

\* What is bound of e is bound so in a record that was read since.
Follows(kind, e) == \E g \in Fresh(kind) : g.id = e.id /\ Agree(e, g, Bound[kind])

\* What the master has was read since; so was what a session has that is not
\* older than the last setting.
LEMMA FreshFacts ==
    ASSUME IInv, NEW kind \in Kind
    PROVE  /\ Fresh(kind) \subseteq Records(kind) /\ Records(kind) \subseteq Record[kind]
           /\ \A e \in Range(copy[Master][kind]) : e \in Fresh(kind)
           /\ \A e \in Fresh(kind) : Follows(kind, e)
           /\ \A m \in Operator : session[m] # None /\ session[m].kind = kind
                 /\ session[m].base >= boundAt[kind][session[m].entry.id]
                 => session[m].entry \in Fresh(kind)
<1>1. TypeOK /\ Versions
  BY DEF IInv
<1>2. Fresh(kind) \subseteq Records(kind) /\ Records(kind) \subseteq Record[kind]
  BY <1>1, RecordsFacts DEF Fresh
<1>3. ASSUME NEW e \in Range(copy[Master][kind])
      PROVE  e \in Fresh(kind)
  <2>1. Master \in Node /\ e \in Records(kind)
    BY <1>1, RecordsFacts, NodeAssumption
  <2>2. e.id \in Id
    BY <1>2, <2>1, RecordFacts
  <2>3. boundAt[kind][e.id] =< version /\ read[Master] = version
    BY <1>1, <2>2 DEF Versions
  <2>4. boundAt[kind][e.id] \in Nat /\ version \in Nat
    BY <1>1, <2>2, BoundsAssumption DEF TypeOK
  <2>5. QED
    BY <2>1, <2>3, <2>4 DEF Fresh
<1>4. ASSUME NEW e \in Fresh(kind)
      PROVE  Follows(kind, e)
  BY <1>2, AgreeFacts DEF Follows
<1>5. ASSUME NEW m \in Operator, session[m] # None, session[m].kind = kind,
             session[m].base >= boundAt[kind][session[m].entry.id]
      PROVE  session[m].entry \in Fresh(kind)
  BY <1>1, <1>5, RecordsFacts DEF Fresh, Edited
<1>6. QED
  BY <1>2, <1>3, <1>4, <1>5

\* What everybody has after a step agrees, if of each ID what was read since
\* either follows what was, or is one record.
LEMMA BoundStep ==
    ASSUME IInv, renamed => renamed',
           renamed' \/ \A k \in Kind : \A i \in Id :
              \/ \A e \in Fresh(k)' : e.id = i => e \in Record[k] /\ Follows(k, e)
              \/ \A e, f \in Fresh(k)' : e.id = i /\ f.id = i => e \in Record[k] /\ e = f,
           \A k \in Kind : \A e \in Fresh(k)' : e.id \in Id
    PROVE  BoundFieldsAgree'
<1>1. SUFFICES ASSUME ~ renamed', NEW k \in Kind, NEW e \in Fresh(k)', NEW f \in Fresh(k)',
                      e.id = f.id
               PROVE  Agree(e, f, Bound[k])
  BY DEF BoundFieldsAgree
<1>2. e.id \in Id
  BY <1>1
<1>3. CASE \A g, h \in Fresh(k)' : g.id = e.id /\ h.id = e.id => g \in Record[k] /\ g = h
  <2>1. e \in Record[k] /\ e = f
    BY <1>1, <1>3
  <2>2. QED
    BY <2>1, AgreeFacts
<1>4. CASE \A g \in Fresh(k)' : g.id = e.id => g \in Record[k] /\ Follows(k, g)
  <2>1. e \in Record[k] /\ f \in Record[k] /\ Follows(k, e) /\ Follows(k, f)
    BY <1>1, <1>4
  <2>2. PICK g \in Fresh(k) : g.id = e.id /\ Agree(e, g, Bound[k])
    BY <2>1 DEF Follows
  <2>3. PICK h \in Fresh(k) : h.id = f.id /\ Agree(f, h, Bound[k])
    BY <2>1 DEF Follows
  <2>4. Agree(g, h, Bound[k])
    BY <1>1, <2>2, <2>3 DEF IInv, BoundFieldsAgree
  <2>5. g \in Record[k] /\ h \in Record[k]
    BY FreshFacts
  <2>6. Agree(e, h, Bound[k])
    BY <2>1, <2>2, <2>4, <2>5, AgreeFacts
  <2>7. Agree(h, f, Bound[k])
    BY <2>1, <2>3, <2>5, AgreeFacts
  <2>8. QED
    BY <2>1, <2>5, <2>6, <2>7, AgreeFacts
<1>5. QED
  BY <1>1, <1>2, <1>3, <1>4

\* A step that publishes nothing: hosts catch up, operators take a record into
\* their hands or give it up.
LEMMA PrivateStep ==
    ASSUME IInv, UNCHANGED <<version, used, renamed, boundAt>>,
           copy' \in [Node -> Config], read' \in [Node -> 0 .. MaxVersion],
           session' \in [Operator -> Session \union {None}],
           \A n \in Node : \/ copy'[n] = copy[n] /\ read'[n] = read[n]
                           \/ copy'[n] = copy[Master] /\ read'[n] = version,
           \A m \in Operator : \/ session'[m] \in {session[m], None}
                               \/ \E n \in Node : /\ session'[m].entry \in Range(copy[n][session'[m].kind])
                                                  /\ session'[m].base = read[n]
    PROVE  IInv'
<1>1. TypeOK /\ Versions /\ RecordsKnown /\ NamesAgree /\ BoundFieldsAgree /\ UniqueUntilRenamed
  BY DEF IInv
<1>2. Master \in Node /\ version \in Nat /\ read[Master] = version
  BY <1>1, NodeAssumption, BoundsAssumption DEF TypeOK, Versions
<1>3. ASSUME NEW k \in Kind, NEW n \in Node, NEW e \in Range(copy'[n][k])
      PROVE  \E h \in Node : e \in Range(copy[h][k]) /\ read'[n] = read[h]
  BY <1>2, <1>3
<1>4. ASSUME NEW m \in Operator, session'[m] # None
      PROVE  \/ session'[m] = session[m]
             \/ \E h \in Node : /\ session'[m].entry \in Range(copy[h][session'[m].kind])
                                /\ session'[m].base = read[h]
  BY <1>4
<1>5. ASSUME NEW k \in Kind, NEW e \in Records(k)'
      PROVE  e \in Records(k)
  <2>1. CASE \E n \in Node : e \in Range(copy'[n][k])
    <3>1. PICK n \in Node : e \in Range(copy'[n][k])
      BY <2>1
    <3>2. PICK h \in Node : e \in Range(copy[h][k])
      BY <1>3, <3>1
    <3>3. QED
      BY <3>2 DEF Records
  <2>2. CASE \E m \in Operator : session'[m] # None /\ session'[m].kind = k /\ e = session'[m].entry
    <3>1. PICK m \in Operator : session'[m] # None /\ session'[m].kind = k /\ e = session'[m].entry
      BY <2>2
    <3>2. CASE session'[m] = session[m]
      BY <3>1, <3>2 DEF Records, Edited
    <3>3. CASE \E h \in Node : session'[m].entry \in Range(copy[h][session'[m].kind])
      BY <3>1, <3>3 DEF Records
    <3>4. QED
      BY <1>4, <3>1, <3>2, <3>3
  <2>3. QED
    BY <1>5, <2>1, <2>2 DEF Records, Edited
<1>6. ASSUME NEW k \in Kind, NEW e \in Fresh(k)'
      PROVE  e \in Fresh(k)
  <2>1. e \in Records(k)
    BY <1>5, <1>6 DEF Fresh
  <2>2. CASE \E n \in Node : e \in Range(copy'[n][k]) /\ read'[n] >= boundAt[k][e.id]
    BY <1>3, <2>1, <2>2 DEF Fresh
  <2>3. CASE \E m \in Operator : /\ session'[m] # None /\ session'[m].kind = k /\ e = session'[m].entry
                                 /\ session'[m].base >= boundAt[k][e.id]
    <3>1. PICK m \in Operator : /\ session'[m] # None /\ session'[m].kind = k /\ e = session'[m].entry
                                /\ session'[m].base >= boundAt[k][e.id]
      BY <2>3
    <3>2. CASE session'[m] = session[m]
      BY <2>1, <3>1, <3>2 DEF Fresh, Edited
    <3>3. CASE \E h \in Node : /\ session'[m].entry \in Range(copy[h][session'[m].kind])
                               /\ session'[m].base = read[h]
      BY <2>1, <3>1, <3>3 DEF Fresh
    <3>4. QED
      BY <1>4, <3>1, <3>2, <3>3
  <2>4. QED
    BY <1>6, <2>2, <2>3 DEF Fresh, Edited
<1>7. TypeOK'
  <2>1. ASSUME NEW n \in Node, NEW k \in Kind, NEW e \in Range(copy'[n][k])
        PROVE  e.id \in used'
    <3>1. PICK h \in Node : e \in Range(copy[h][k])
      BY <1>3
    <3>2. QED
      BY <1>1, <3>1 DEF TypeOK
  <2>2. QED
    BY <1>1, <2>1 DEF TypeOK
<1>8. Versions'
  <2>1. read'[Master] = version'
    BY <1>2
  <2>2. ASSUME NEW n \in Node
        PROVE  read'[n] =< version'
    BY <1>1, <1>2, <2>2 DEF Versions
  <2>3. ASSUME NEW m \in Operator, session'[m] # None
        PROVE  session'[m].base =< version'
    BY <1>1, <1>4, <2>3 DEF Versions
  <2>4. QED
    BY <1>1, <2>1, <2>2, <2>3 DEF Versions
<1>9. RecordsKnown' /\ NamesAgree'
  BY <1>1, <1>5 DEF RecordsKnown, NamesAgree
<1>10. BoundFieldsAgree'
  BY <1>1, <1>6 DEF BoundFieldsAgree
<1>11. UniqueUntilRenamed'
  BY <1>1, <1>2 DEF UniqueUntilRenamed
<1>12. QED
  BY <1>7, <1>8, <1>9, <1>10, <1>11 DEF IInv

\* What a configuration that comes to the master has to show of the entries
\* that the master does not have: their IDs were given out, what is bound of
\* them follows what was read since or is set, unless nobody has them, and
\* nobody has another name for them.
Admissible(c) ==
    \A k \in Kind : \A e \in Range(c[k]) :
        \/ e \in Range(copy[Master][k])
        \/ /\ e.id \in used'
           /\ renamed' \/ boundAt'[k][e.id] = version + 1 \/ Follows(k, e) \/ New(k, e.id)
           /\ renamed' \/ \A f \in Records(k) : e.id = f.id => Agree(e, f, {"name"})

\* A step that publishes the configuration c: it is the next version, at the
\* master and perhaps at other hosts.
Publishes(c) ==
    /\ version' = version + 1
    /\ \A k \in Kind : copy'[Master][k] = c[k]
    /\ read'[Master] = version + 1
    /\ \A n \in Node : \/ copy'[n] = copy[n] /\ read'[n] = read[n]
                       \/ (\A k \in Kind : copy'[n][k] = c[k]) /\ read'[n] = version + 1
    /\ \A m \in Operator : session'[m] \in {session[m], None}
    /\ \A k \in Kind, i \in Id : boundAt'[k][i] \in {boundAt[k][i], version + 1}

\* The primed variables are in their types.
Typed ==
    /\ copy' \in [Node -> Config] /\ read' \in [Node -> 0 .. MaxVersion]
    /\ version' \in 0 .. MaxVersion /\ used' \subseteq Id
    /\ session' \in [Operator -> Session \union {None}] /\ renamed' \in BOOLEAN
    /\ boundAt' \in [Kind -> [Id -> 0 .. MaxVersion]]

LEMMA PublishStep ==
    ASSUME IInv, NEW c \in Config, Publishes(c), Typed, Admissible(c),
           used \subseteq used', renamed => renamed',
           renamed' \/ \A k \in Kind : Unique(c[k])
    PROVE  IInv'
<1>1. TypeOK /\ Versions /\ RecordsKnown /\ NamesAgree /\ BoundFieldsAgree /\ UniqueUntilRenamed
  BY DEF IInv
<1>2. Master \in Node /\ version \in Nat /\ read[Master] = version
  BY <1>1, NodeAssumption, BoundsAssumption DEF TypeOK, Versions
<1>3. \A k \in Kind : c[k] \in Seq(Record[k]) /\ Range(c[k]) \subseteq Record[k]
  BY ConfigFacts, RangeOfSeq
<1>4. ASSUME NEW k \in Kind, NEW e \in Records(k)'
      PROVE  e \in Records(k) \/ e \in Range(c[k])
  <2>1. CASE \E n \in Node : e \in Range(copy'[n][k])
    BY <2>1 DEF Publishes, Records
  <2>2. CASE \E m \in Operator : session'[m] # None /\ session'[m].kind = k /\ e = session'[m].entry
    BY <2>2 DEF Publishes, Records, Edited
  <2>3. QED
    BY <1>4, <2>1, <2>2 DEF Records, Edited
<1>5. ASSUME NEW k \in Kind, NEW e \in Range(c[k])
      PROVE  /\ e \in Record[k] /\ e.id \in used'
             /\ renamed' \/ boundAt'[k][e.id] = version + 1 \/ Follows(k, e) \/ New(k, e.id)
             /\ renamed' \/ \A f \in Records(k) : e.id = f.id => Agree(e, f, {"name"})
  <2>1. e \in Record[k]
    BY <1>3, <1>5
  <2>2. CASE e \in Range(copy[Master][k])
    <3>1. e \in Records(k) /\ e.id \in used
      BY <1>1, <1>2, <2>2, RecordsFacts DEF RecordsKnown
    <3>2. Follows(k, e)
      BY <2>2, FreshFacts
    <3>3. renamed' \/ \A f \in Records(k) : e.id = f.id => Agree(e, f, {"name"})
      BY <1>1, <3>1 DEF NamesAgree
    <3>4. QED
      BY <2>1, <3>1, <3>2, <3>3
  <2>3. CASE e \notin Range(copy[Master][k])
    BY <1>5, <2>1, <2>3 DEF Admissible
  <2>4. QED
    BY <2>2, <2>3
<1>6. RecordsKnown'
  BY <1>1, <1>4, <1>5 DEF RecordsKnown
<1>7. NamesAgree'
  <2>1. SUFFICES ASSUME ~ renamed', NEW k \in Kind, NEW e \in Records(k)', NEW f \in Records(k)',
                        e.id = f.id
                 PROVE  Agree(e, f, {"name"})
    BY DEF NamesAgree
  <2>2. Records(k) \subseteq Record[k]
    BY FreshFacts
  <2>3. CASE e \in Records(k) /\ f \in Records(k)
    BY <1>1, <2>1, <2>3 DEF NamesAgree
  <2>4. CASE e \in Range(c[k]) /\ f \in Records(k)
    BY <1>5, <2>1, <2>4
  <2>5. CASE e \in Records(k) /\ f \in Range(c[k])
    <3>1. Agree(f, e, {"name"}) /\ e \in Record[k] /\ f \in Record[k]
      BY <1>3, <1>5, <2>1, <2>2, <2>5
    <3>2. QED
      BY <3>1, AgreeFacts
  <2>6. CASE e \in Range(c[k]) /\ f \in Range(c[k])
    <3>1. e = f /\ e \in Record[k]
      BY <1>3, <2>1, <2>6, UniqueSame
    <3>2. QED
      BY <3>1, AgreeFacts
  <2>7. QED
    BY <1>4, <2>3, <2>4, <2>5, <2>6
<1>8. ASSUME NEW k \in Kind, NEW e \in Fresh(k)'
      PROVE  /\ e \in Record[k] /\ e.id \in Id
             /\ boundAt'[k][e.id] = version + 1 => e \in Range(c[k])
             /\ boundAt'[k][e.id] # version + 1 => e \in Fresh(k) \/ e \in Range(c[k])
  <2>1. e \in Records(k)'
    BY <1>8 DEF Fresh
  <2>2. e \in Record[k] /\ e.id \in Id
    <3>1. Records(k) \subseteq Record[k]
      BY FreshFacts
    <3>2. e \in Record[k]
      BY <1>3, <1>4, <2>1, <3>1
    <3>3. QED
      BY <3>2, RecordFacts
  <2>3. /\ boundAt'[k][e.id] \in {boundAt[k][e.id], version + 1}
        /\ boundAt[k][e.id] \in Nat /\ boundAt[k][e.id] =< version
    BY <1>1, <2>2 DEF Publishes, TypeOK, Versions
  <2>4. CASE \E n \in Node : e \in Range(copy'[n][k]) /\ read'[n] >= boundAt'[k][e.id]
    <3>1. PICK n \in Node : e \in Range(copy'[n][k]) /\ read'[n] >= boundAt'[k][e.id]
      BY <2>4
    <3>2. CASE copy'[n] = copy[n] /\ read'[n] = read[n]
      <4>1. read[n] \in Nat /\ read[n] =< version
        BY <1>1 DEF TypeOK, Versions
      <4>2. boundAt'[k][e.id] # version + 1
        BY <1>2, <3>1, <3>2, <4>1
      <4>3. read[n] >= boundAt[k][e.id] /\ e \in Range(copy[n][k])
        BY <2>3, <3>1, <3>2, <4>2
      <4>4. e \in Fresh(k)
        BY <4>3 DEF Fresh, Records
      <4>5. QED
        BY <2>2, <4>2, <4>4
    <3>3. CASE \A j \in Kind : copy'[n][j] = c[j]
      BY <2>2, <3>1, <3>3
    <3>4. QED
      BY <3>2, <3>3 DEF Publishes
  <2>5. CASE \E m \in Operator : /\ session'[m] # None /\ session'[m].kind = k
                                 /\ e = session'[m].entry /\ session'[m].base >= boundAt'[k][e.id]
    <3>1. PICK m \in Operator : /\ session'[m] # None /\ session'[m].kind = k
                                /\ e = session'[m].entry /\ session'[m].base >= boundAt'[k][e.id]
      BY <2>5
    <3>2. session'[m] = session[m]
      BY <3>1 DEF Publishes
    <3>3. session[m] \in Session
      BY <1>1, <3>1, <3>2 DEF TypeOK
    <3>4. session[m].base \in Nat /\ session[m].base =< version
      BY <1>1, <3>1, <3>2, <3>3, SessionFacts DEF Versions
    <3>5. boundAt'[k][e.id] # version + 1
      BY <1>2, <3>1, <3>2, <3>4
    <3>6. session[m].base >= boundAt[k][e.id]
      BY <2>3, <3>1, <3>2, <3>5
    <3>7. e \in Fresh(k)
      BY <3>1, <3>2, <3>6, FreshFacts
    <3>8. QED
      BY <2>2, <3>5, <3>7
  <2>6. QED
    BY <1>8, <2>4, <2>5 DEF Fresh, Edited
<1>9. BoundFieldsAgree'
  <2>1. ASSUME ~ renamed', NEW k \in Kind, NEW i \in Id
        PROVE  \/ \A e \in Fresh(k)' : e.id = i => e \in Record[k] /\ Follows(k, e)
               \/ \A e, f \in Fresh(k)' : e.id = i /\ f.id = i => e \in Record[k] /\ e = f
    <3>1. CASE boundAt'[k][i] = version + 1
      <4>1. ASSUME NEW e \in Fresh(k)', NEW f \in Fresh(k)', e.id = i, f.id = i
            PROVE  e \in Record[k] /\ e = f
        <5>1. e \in Record[k] /\ e \in Range(c[k]) /\ f \in Range(c[k])
          BY <1>8, <3>1, <4>1
        <5>2. QED
          BY <1>3, <2>1, <4>1, <5>1, UniqueSame
      <4>2. QED
        BY <4>1
    <3>2. CASE boundAt'[k][i] # version + 1 /\ New(k, i)
      <4>1. ASSUME NEW e \in Fresh(k)', NEW f \in Fresh(k)', e.id = i, f.id = i
            PROVE  e \in Record[k] /\ e = f
        <5>1. e \in Record[k] /\ e \in Range(c[k]) /\ f \in Range(c[k])
          BY <1>8, <3>2, <4>1, FreshFacts DEF New
        <5>2. QED
          BY <1>3, <2>1, <4>1, <5>1, UniqueSame
      <4>2. QED
        BY <4>1
    <3>3. CASE boundAt'[k][i] # version + 1 /\ ~ New(k, i)
      <4>1. ASSUME NEW e \in Fresh(k)', e.id = i
            PROVE  e \in Record[k] /\ Follows(k, e)
        <5>1. e \in Record[k] /\ (e \in Fresh(k) \/ e \in Range(c[k]))
          BY <1>8, <3>3, <4>1
        <5>2. CASE e \in Fresh(k)
          BY <5>1, <5>2, FreshFacts
        <5>3. CASE e \in Range(c[k])
          BY <1>5, <2>1, <3>3, <4>1, <5>1, <5>3
        <5>4. QED
          BY <5>1, <5>2, <5>3
      <4>2. QED
        BY <4>1
    <3>4. QED
      BY <3>1, <3>2, <3>3
  <2>2. \A k \in Kind : \A e \in Fresh(k)' : e.id \in Id
    BY <1>8
  <2>3. QED
    BY <2>1, <2>2, BoundStep
<1>10. TypeOK'
  <2>1. ASSUME NEW n \in Node, NEW k \in Kind, NEW e \in Range(copy'[n][k])
        PROVE  e.id \in used'
    BY <1>6, <2>1 DEF RecordsKnown, Records
  <2>2. QED
    BY <2>1 DEF TypeOK, Typed
<1>11. Versions'
  <2>1. ASSUME NEW n \in Node
        PROVE  read'[n] =< version'
    <3>1. read[n] \in Nat /\ read[n] =< version
      BY <1>1 DEF TypeOK, Versions
    <3>2. QED
      BY <1>2, <3>1 DEF Publishes
  <2>2. ASSUME NEW m \in Operator, session'[m] # None
        PROVE  session'[m].base =< version'
    <3>1. session'[m] = session[m]
      BY <2>2 DEF Publishes
    <3>2. session[m] \in Session
      BY <1>1, <2>2, <3>1 DEF TypeOK
    <3>3. session[m].base \in Nat /\ session[m].base =< version
      BY <1>1, <2>2, <3>1, <3>2, SessionFacts DEF Versions
    <3>4. QED
      BY <1>2, <3>1, <3>3 DEF Publishes
  <2>3. ASSUME NEW k \in Kind, NEW i \in Id
        PROVE  boundAt'[k][i] =< version'
    <3>1. boundAt[k][i] \in Nat /\ boundAt[k][i] =< version
      BY <1>1 DEF TypeOK, Versions
    <3>2. boundAt'[k][i] \in {boundAt[k][i], version + 1} /\ version' = version + 1
      BY DEF Publishes
    <3>3. QED
      BY <1>2, <3>1, <3>2
  <2>4. read'[Master] = version'
    BY DEF Publishes
  <2>5. QED
    BY <2>1, <2>2, <2>3, <2>4 DEF Versions
<1>12. UniqueUntilRenamed'
  BY DEF UniqueUntilRenamed, Publishes
<1>13. QED
  BY <1>6, <1>7, <1>9, <1>10, <1>11, <1>12 DEF IInv

\* The variables a commit changes: it publishes the master's configuration with
\* another list.
LEMMA CommitFacts ==
    ASSUME IInv, NEW kind \in Kind, NEW list \in Seq(Record[kind]), Commit(kind, list),
           \A m \in Operator : session'[m] \in {session[m], None},
           \A k \in Kind, i \in Id : boundAt'[k][i] \in {boundAt[k][i], version + 1}
    PROVE  /\ [copy[Master] EXCEPT ![kind] = list] \in Config
           /\ Publishes([copy[Master] EXCEPT ![kind] = list])
           /\ copy' \in [Node -> Config] /\ read' \in [Node -> 0 .. MaxVersion]
           /\ version' \in 0 .. MaxVersion
           /\ [copy[Master] EXCEPT ![kind] = list][kind] = list
           /\ \A k \in Kind \ {kind} : [copy[Master] EXCEPT ![kind] = list][k] = copy[Master][k]
<1> DEFINE c == [copy[Master] EXCEPT ![kind] = list]
<1>1. /\ Master \in Node /\ copy \in [Node -> Config] /\ read \in [Node -> 0 .. MaxVersion]
      /\ version \in 0 .. MaxVersion /\ MaxVersion \in Nat
  BY NodeAssumption, BoundsAssumption DEF IInv, TypeOK
<1>2. c \in Config /\ c[kind] = list /\ \A k \in Kind \ {kind} : c[k] = copy[Master][k]
  BY <1>1, ConfigWith
<1>3. /\ version < MaxVersion /\ version' = version + 1
      /\ copy' = [copy EXCEPT ![Master] = c] /\ read' = [read EXCEPT ![Master] = version + 1]
  BY DEF Commit
<1> HIDE DEF c
<1>4. version + 1 \in 0 .. MaxVersion
  BY <1>1, <1>3
<1>5. copy' \in [Node -> Config] /\ read' \in [Node -> 0 .. MaxVersion]
  BY <1>1, <1>2, <1>3, <1>4
<1>6. /\ copy'[Master] = c /\ read'[Master] = version + 1
      /\ \A n \in Node \ {Master} : copy'[n] = copy[n] /\ read'[n] = read[n]
  BY <1>1, <1>3
<1>7. Publishes(c)
  BY <1>1, <1>3, <1>6 DEF Publishes
<1>8. QED
  BY <1>2, <1>3, <1>4, <1>5, <1>7 DEF c

\* A commit of a list whose entries are the master's, or one more that is
\* admissible.
LEMMA CommitStep ==
    ASSUME IInv, NEW kind \in Kind, NEW list \in Seq(Record[kind]), Commit(kind, list),
           \A m \in Operator : session'[m] \in {session[m], None},
           \A k \in Kind, i \in Id : boundAt'[k][i] \in {boundAt[k][i], version + 1},
           used' \subseteq Id, renamed' \in BOOLEAN,
           session' \in [Operator -> Session \union {None}],
           boundAt' \in [Kind -> [Id -> 0 .. MaxVersion]],
           used \subseteq used', renamed => renamed',
           \A e \in Range(list) :
              \/ e \in Range(copy[Master][kind])
              \/ /\ e.id \in used'
                 /\ renamed' \/ boundAt'[kind][e.id] = version + 1 \/ Follows(kind, e) \/ New(kind, e.id)
                 /\ renamed' \/ \A f \in Records(kind) : e.id = f.id => Agree(e, f, {"name"}),
           renamed' \/ (Unique(copy[Master][kind]) => Unique(list))
    PROVE  IInv'
<1> DEFINE c == [copy[Master] EXCEPT ![kind] = list]
<1>1. /\ c \in Config /\ Publishes(c) /\ copy' \in [Node -> Config]
      /\ read' \in [Node -> 0 .. MaxVersion] /\ version' \in 0 .. MaxVersion
      /\ c[kind] = list /\ \A k \in Kind \ {kind} : c[k] = copy[Master][k]
  BY CommitFacts
<1> HIDE DEF c
<1>2. Typed
  BY <1>1 DEF Typed
<1>3. Admissible(c)
  <2>1. ASSUME NEW k \in Kind, NEW e \in Range(c[k])
        PROVE  \/ e \in Range(copy[Master][k])
               \/ /\ e.id \in used'
                  /\ renamed' \/ boundAt'[k][e.id] = version + 1 \/ Follows(k, e) \/ New(k, e.id)
                  /\ renamed' \/ \A f \in Records(k) : e.id = f.id => Agree(e, f, {"name"})
    <3>1. CASE k = kind
      <4>1. e \in Range(list)
        BY <1>1, <3>1
      <4>2. QED
        BY <3>1, <4>1
    <3>2. CASE k # kind
      BY <1>1, <3>2
    <3>3. QED
      BY <3>1, <3>2
  <2>2. QED
    BY <2>1 DEF Admissible
<1>4. renamed' \/ \A k \in Kind : Unique(c[k])
  BY <1>1 DEF IInv, UniqueUntilRenamed
<1>5. QED
  BY <1>1, <1>2, <1>3, <1>4, PublishStep

LEMMA InitIInv == Init => IInv
<1> SUFFICES ASSUME Init PROVE IInv
  OBVIOUS
<1>1. /\ Initial \in Config /\ \A kind \in Kind : Unique(Initial[kind])
      /\ \A n \in Node : copy[n] = Initial
      /\ \A m \in Operator : session[m] = None
      /\ used = UNION {{e.id : e \in Range(Initial[kind])} : kind \in Kind}
  BY InitialAssumption DEF Init, Ids
<1>2. \A kind \in Kind : Initial[kind] \in Seq(Record[kind])
  BY <1>1, ConfigFacts
<1>3. \A kind \in Kind : Range(Initial[kind]) \subseteq Record[kind]
  BY <1>2, RangeOfSeq
<1>4. \A kind \in Kind : \A e \in Range(Initial[kind]) : e.id \in Id /\ e.id \in used
  BY <1>1, <1>3, RecordFacts
<1>5. ASSUME NEW kind \in Kind, NEW e \in Records(kind)
      PROVE  e \in Range(Initial[kind])
  BY <1>1 DEF Records, Edited
<1>6. \A kind \in Kind : \A e, f \in Range(Initial[kind]) : e.id = f.id => e = f
  BY <1>1, <1>2, UniqueSame
<1>7. TypeOK
  <2>1. used \subseteq Id
    <3>1. ASSUME NEW u \in used
          PROVE  u \in Id
      <4>1. \E kind \in Kind : u \in {e.id : e \in Range(Initial[kind])}
        BY <1>1, <3>1
      <4>2. PICK kind \in Kind : u \in {e.id : e \in Range(Initial[kind])}
        BY <4>1
      <4>3. PICK e \in Range(Initial[kind]) : u = e.id
        BY <4>2
      <4>4. QED
        BY <1>4, <4>3
    <3>2. QED
      BY <3>1
  <2>2. \A n \in Node, kind \in Kind : \A e \in Range(copy[n][kind]) : e.id \in used
    BY <1>1, <1>4
  <2>3. copy \in [Node -> Config] /\ session \in [Operator -> Session \union {None}]
    <3>1. copy = [n \in Node |-> Initial] /\ session = [n \in Operator |-> None]
      BY DEF Init
    <3>2. copy \in [Node -> Config]
      BY <1>1, <3>1
    <3>3. session \in [Operator -> Session \union {None}]
      BY <3>1
    <3>4. QED
      BY <3>2, <3>3
  <2>4. /\ version \in 0 .. MaxVersion /\ renamed \in BOOLEAN
        /\ read \in [Node -> 0 .. MaxVersion] /\ boundAt \in [Kind -> [Id -> 0 .. MaxVersion]]
    <3>1. 0 \in 0 .. MaxVersion
      BY BoundsAssumption
    <3>2. QED
      BY <3>1 DEF Init
  <2>5. QED
    BY <2>1, <2>2, <2>3, <2>4 DEF TypeOK
<1>8. RecordsKnown
  BY <1>4, <1>5 DEF RecordsKnown
<1>9. Versions
  <2>1. /\ version = 0 /\ \A n \in Node : read[n] = 0
        /\ \A kind \in Kind, i \in Id : boundAt[kind][i] = 0
    BY DEF Init
  <2>2. QED
    BY <1>1, <2>1, NodeAssumption DEF Versions
<1>10. ASSUME NEW kind \in Kind, NEW e \in Records(kind), NEW f \in Records(kind), e.id = f.id
       PROVE  Agree(e, f, Bound[kind]) /\ Agree(e, f, {"name"})
  <2>1. e = f
    BY <1>5, <1>6, <1>10
  <2>2. e \in Record[kind]
    BY <1>3, <1>5
  <2>3. QED
    BY <2>1, <2>2, AgreeFacts
<1>11. NamesAgree
  BY <1>10 DEF NamesAgree
<1>12. BoundFieldsAgree
  BY <1>10 DEF BoundFieldsAgree, Fresh
<1>13. UniqueUntilRenamed
  BY <1>1, NodeAssumption DEF UniqueUntilRenamed
<1>14. QED
  BY <1>7, <1>8, <1>9, <1>11, <1>12, <1>13 DEF IInv

-----------------------------------------------------------------------------
(* The actions.                                                            *)

\* What a step shares with all others.
LEMMA InvFacts ==
    ASSUME IInv
    PROVE  /\ TypeOK /\ Versions /\ RecordsKnown /\ NamesAgree /\ BoundFieldsAgree /\ UniqueUntilRenamed
           /\ Master \in Node /\ Operator \subseteq Node
           /\ version \in 0 .. MaxVersion /\ version \in Nat /\ MaxVersion \in Nat
           /\ \A n \in Node : copy[n] \in Config /\ read[n] \in 0 .. MaxVersion
           /\ \A n \in Node, k \in Kind : copy[n][k] \in Seq(Record[k])
  BY NodeAssumption, BoundsAssumption, ConfigFacts DEF IInv, TypeOK

\* A broadcast or a pull brings what the master has.
LEMMA CatchUpStep ==
    ASSUME IInv, NEW n \in Node, CatchUp(n)
    PROVE  IInv'
<1>1. /\ copy' = [copy EXCEPT ![n] = copy[Master]] /\ read' = [read EXCEPT ![n] = version]
      /\ UNCHANGED <<version, used, session, renamed, boundAt>>
  BY DEF CatchUp
<1>2. /\ copy \in [Node -> Config] /\ read \in [Node -> 0 .. MaxVersion]
      /\ session \in [Operator -> Session \union {None}]
  BY InvFacts DEF TypeOK
<1>3. /\ copy' \in [Node -> Config] /\ read' \in [Node -> 0 .. MaxVersion]
      /\ session' \in [Operator -> Session \union {None}]
  BY <1>1, <1>2, InvFacts
<1>4. \A m \in Node : \/ copy'[m] = copy[m] /\ read'[m] = read[m]
                      \/ copy'[m] = copy[Master] /\ read'[m] = version
  BY <1>1, <1>2
<1>5. \A m \in Operator : session'[m] \in {session[m], None}
  BY <1>1
<1>6. QED
  BY <1>1, <1>3, <1>4, <1>5, PrivateStep

\* An operator takes a record into his hands, or gives it up.
LEMMA SessionStep ==
    ASSUME IInv, UNCHANGED <<copy, read, version, used, renamed, boundAt>>,
           session' \in [Operator -> Session \union {None}],
           \A m \in Operator : \/ session'[m] \in {session[m], None}
                               \/ \E n \in Node : /\ session'[m].entry \in Range(copy[n][session'[m].kind])
                                                  /\ session'[m].base = read[n]
    PROVE  IInv'
<1>1. copy' \in [Node -> Config] /\ read' \in [Node -> 0 .. MaxVersion]
  BY InvFacts DEF TypeOK
<1>2. QED
  BY <1>1, PrivateStep

LEMMA OpenStep ==
    ASSUME IInv, NEW n \in Operator, NEW kind \in Kind, NEW ref, NEW how \in How[kind],
           Open(n, kind, how, ref)
    PROVE  IInv'
<1>1. n \in Node /\ copy[n][kind] \in Seq(Record[kind]) /\ read[n] \in 0 .. MaxVersion
  BY InvFacts
<1> DEFINE list == copy[n][kind]
           at == Find(list, ref)
           x == [kind |-> kind, how |-> how, entry |-> list[at], base |-> read[n]]
<1>2. /\ at # 0 /\ session' = [session EXCEPT ![n] = x]
      /\ UNCHANGED <<copy, read, version, used, renamed, boundAt>>
  BY DEF Open
<1>3. at \in 1 .. Len(list)
  BY <1>1, <1>2, FindFacts
<1>4. list[at] \in Record[kind] /\ list[at] \in Range(list)
  BY <1>1, <1>3, ElementOfSeq, LenProperties DEF Range
<1>5. x \in Session
  BY <1>1, <1>4 DEF Session
<1>6. x.entry \in Range(copy[n][x.kind]) /\ x.base = read[n]
  BY <1>4
<1> HIDE DEF x
<1>7. session \in [Operator -> Session \union {None}]
  BY InvFacts DEF TypeOK
<1>8. session' \in [Operator -> Session \union {None}]
  BY <1>2, <1>5, <1>7
<1>9. ASSUME NEW m \in Operator
      PROVE  \/ session'[m] \in {session[m], None}
             \/ \E h \in Node : /\ session'[m].entry \in Range(copy[h][session'[m].kind])
                                /\ session'[m].base = read[h]
  <2>1. session'[m] = IF m = n THEN x ELSE session[m]
    BY <1>2, <1>7
  <2>2. QED
    BY <1>1, <1>6, <2>1
<1>10. QED
  BY <1>2, <1>8, <1>9, SessionStep

LEMMA AbandonStep ==
    ASSUME IInv, NEW n \in Operator, Abandon(n)
    PROVE  IInv'
<1>1. session \in [Operator -> Session \union {None}]
  BY InvFacts DEF TypeOK
<1>2. /\ session' \in [Operator -> Session \union {None}]
      /\ \A m \in Operator : session'[m] \in {session[m], None}
  BY <1>1 DEF Abandon
<1>3. QED
  BY <1>2, SessionStep DEF Abandon

\* An edit reaches the master: the record committed agrees with the one it was
\* made from, which was read after what is bound of it was last set, or sets
\* it.
LEMMA SubmitStep ==
    ASSUME IInv, NEW n \in Operator, Submit(n)
    PROVE  IInv'
<1> DEFINE s == session[n].entry
           kind == session[n].kind
           how == session[n].how
           list == copy[Master][kind]
<1>1. session[n] # None /\ session[n] \in Session
  BY InvFacts DEF Submit, TypeOK
<1>2. /\ kind \in Kind /\ how \in How[kind] /\ s \in Record[kind] /\ s \in Records(kind)
      /\ session[n].base \in 0 .. MaxVersion /\ s.id \in Id
  BY <1>1, InvFacts, SessionFacts, RecordsFacts, RecordFacts
<1>3. PICK e \in Edits(kind, how, s) :
         /\ Commit(kind, Upsert(list, e))
         /\ renamed' = (renamed \/ ~ Agree(e, s, {"name"}))
  BY DEF Submit
<1>4. /\ boundAt' = IF session[n].base < boundAt[kind][s.id]
                    THEN [boundAt EXCEPT ![kind] = [boundAt[kind] EXCEPT ![s.id] = version + 1]]
                    ELSE boundAt
      /\ session' = [session EXCEPT ![n] = None] \/ session' = session
      /\ used' = used
  BY DEF Submit
<1>5. list \in Seq(Record[kind])
  BY <1>2, InvFacts
<1>6. e \in Record[kind] /\ Agree(s, e, Bound[kind]) /\ s.id = e.id
  <2>1. e \in Record[kind] /\ Agree(s, e, Bound[kind])
    BY <1>2, <1>3, EditsKeep
  <2>2. "id" \in Bound[kind] /\ "id" \in DOMAIN s
    BY <1>2, RecordFacts
  <2>3. QED
    BY <2>1, <2>2 DEF Agree
<1>7. /\ boundAt \in [Kind -> [Id -> 0 .. MaxVersion]] /\ used \subseteq Id /\ renamed \in BOOLEAN
      /\ session \in [Operator -> Session \union {None}]
  BY InvFacts DEF TypeOK
<1>8. /\ session' \in [Operator -> Session \union {None}]
      /\ \A m \in Operator : session'[m] \in {session[m], None}
  BY <1>4, <1>7
<1>9. version + 1 \in 0 .. MaxVersion
  BY <1>3, InvFacts DEF Commit
<1>10. session[n].base >= boundAt[kind][s.id] => s \in Fresh(kind)
  BY <1>1, <1>2, FreshFacts
<1> HIDE DEF s, kind, how, list
<1>11. /\ boundAt' \in [Kind -> [Id -> 0 .. MaxVersion]]
       /\ \A k \in Kind, i \in Id : boundAt'[k][i] \in {boundAt[k][i], version + 1}
       /\ session[n].base < boundAt[kind][s.id] => boundAt'[kind][s.id] = version + 1
  BY <1>2, <1>4, <1>7, <1>9
<1>12. renamed' \in BOOLEAN /\ (renamed => renamed') /\ (renamed' \/ (~renamed /\ Agree(e, s, {"name"})))
  BY <1>3, <1>7
<1>13. boundAt'[kind][e.id] = version + 1 \/ Follows(kind, e)
  <2>1. CASE session[n].base < boundAt[kind][s.id]
    BY <1>6, <1>11, <2>1
  <2>2. CASE ~ (session[n].base < boundAt[kind][s.id])
    <3>1. boundAt[kind][s.id] \in Nat /\ session[n].base \in Nat
      BY <1>2, <1>7, InvFacts
    <3>2. s \in Fresh(kind)
      BY <1>10, <2>2, <3>1
    <3>3. Agree(e, s, Bound[kind])
      BY <1>2, <1>6, AgreeFacts
    <3>4. QED
      BY <1>6, <3>2, <3>3 DEF Follows
  <2>3. QED
    BY <2>1, <2>2
<1>14. renamed' \/ \A f \in Records(kind) : e.id = f.id => Agree(e, f, {"name"})
  <2>1. SUFFICES ASSUME ~ renamed', NEW f \in Records(kind), e.id = f.id
                 PROVE  Agree(e, f, {"name"})
    OBVIOUS
  <2>2. Agree(s, f, {"name"})
    BY <1>2, <1>6, <1>12, <2>1, InvFacts DEF NamesAgree
  <2>3. f \in Record[kind]
    BY <1>2, <2>1, FreshFacts
  <2>4. QED
    BY <1>2, <1>6, <1>12, <2>1, <2>2, <2>3, AgreeFacts
<1>15. Upsert(list, e) \in Seq(Record[kind]) /\ Range(Upsert(list, e)) \subseteq Range(list) \union {e}
  BY <1>5, <1>6, UpsertRange
<1>16. renamed' \/ (Unique(list) => Unique(Upsert(list, e)))
  <2>1. SUFFICES ASSUME ~renamed', Unique(list) PROVE Unique(Upsert(list, e))
    OBVIOUS
  <2>2. ASSUME NEW i \in 1 .. Len(list), list[i].id = e.id
        PROVE  Agree(list[i], e, {"name"})
    <3>1. list[i] \in Range(list)
      BY <1>5, LenProperties DEF Range
    <3>2. list[i] \in Records(kind) /\ list[i] \in Record[kind]
      BY <1>2, <3>1, FreshFacts DEF list
    <3>3. QED
      BY <1>2, <1>6, <1>14, <2>1, <2>2, <3>2, AgreeFacts
  <2>3. QED
    BY <1>2, <1>5, <1>6, <2>1, <2>2, UpsertUnique
<1>17. e.id \in used'
  BY <1>2, <1>4, <1>6, InvFacts DEF RecordsKnown
<1>18. used' \subseteq Id /\ used \subseteq used'
  BY <1>4, <1>7
<1>19. \A x \in Range(Upsert(list, e)) :
          \/ x \in Range(copy[Master][kind])
          \/ /\ x.id \in used'
             /\ renamed' \/ boundAt'[kind][x.id] = version + 1 \/ Follows(kind, x) \/ New(kind, x.id)
             /\ renamed' \/ \A f \in Records(kind) : x.id = f.id => Agree(x, f, {"name"})
  BY <1>13, <1>14, <1>15, <1>17 DEF list
<1>20. renamed' \/ (Unique(copy[Master][kind]) => Unique(Upsert(list, e)))
  BY <1>16 DEF list
<1>21. QED
  BY <1>2, <1>3, <1>8, <1>11, <1>12, <1>15, <1>18, <1>19, <1>20, CommitStep

\* An entry whose ID nobody has needs no more.
LEMMA NewEntry ==
    ASSUME IInv, NEW kind \in Kind, NEW e \in Record[kind], e.id \notin used
    PROVE  /\ \A f \in Records(kind) : e.id # f.id
           /\ Unique(copy[Master][kind]) => Unique(Upsert(copy[Master][kind], e))
<1> DEFINE list == copy[Master][kind]
<1>1. \A f \in Records(kind) : f.id # e.id
  BY InvFacts DEF RecordsKnown
<1>2. list \in Seq(Record[kind]) /\ Range(list) \subseteq Records(kind)
  BY InvFacts, RecordsFacts
<1>3. \A i \in 1 .. Len(list) : list[i].id # e.id
  BY <1>1, <1>2, LenProperties DEF Range
<1> HIDE DEF list
<1>4. Unique(list) => Unique(Upsert(list, e))
  BY <1>2, <1>3, UpsertUnique
<1>5. QED
  BY <1>1, <1>4 DEF list

\* A new entry has an ID that nobody has.  Nobody has set anything of it, so
\* nobody can have it otherwise.
LEMMA AddStep ==
    ASSUME IInv, NEW kind \in Kind, NEW e \in Additions[kind], AddEntry(kind, e)
    PROVE  IInv'
<1>1. /\ e.id \notin used /\ used' = used \union {e.id}
      /\ Commit(kind, Upsert(copy[Master][kind], e)) /\ UNCHANGED <<session, renamed, boundAt>>
  BY DEF AddEntry
<1>2. e \in Record[kind] /\ e.id \in Id
  BY AdditionsType, RecordFacts
<1> DEFINE list == copy[Master][kind]
<1>3. list \in Seq(Record[kind]) /\ Range(list) \subseteq Records(kind)
  BY InvFacts, RecordsFacts
<1>4. New(kind, e.id) /\ (Unique(list) => Unique(Upsert(list, e)))
  BY <1>1, <1>2, NewEntry DEF New
<1>5. /\ Upsert(list, e) \in Seq(Record[kind])
      /\ Range(Upsert(list, e)) \subseteq Range(list) \union {e}
  BY <1>2, <1>3, UpsertRange
<1>6. /\ used' \subseteq Id /\ used \subseteq used' /\ renamed' \in BOOLEAN /\ (renamed => renamed')
      /\ session' \in [Operator -> Session \union {None}]
      /\ \A m \in Operator : session'[m] \in {session[m], None}
      /\ boundAt' \in [Kind -> [Id -> 0 .. MaxVersion]]
      /\ \A k \in Kind, i \in Id : boundAt'[k][i] \in {boundAt[k][i], version + 1}
  BY <1>1, <1>2, InvFacts DEF TypeOK
<1>7. \A x \in Range(Upsert(list, e)) :
         \/ x \in Range(copy[Master][kind])
         \/ /\ x.id \in used'
            /\ renamed' \/ boundAt'[kind][x.id] = version + 1 \/ Follows(kind, x) \/ New(kind, x.id)
            /\ renamed' \/ \A f \in Records(kind) : x.id = f.id => Agree(x, f, {"name"})
  <2>1. e.id \in used' /\ \A f \in Records(kind) : e.id # f.id
    BY <1>1, <1>4 DEF New
  <2>2. QED
    BY <1>4, <1>5, <2>1
<1>8. QED
  BY <1>1, <1>4, <1>5, <1>6, <1>7, CommitStep

LEMMA RemoveStep ==
    ASSUME IInv, NEW kind \in Kind, NEW ref, RemoveEntry(kind, ref)
    PROVE  IInv'
<1> DEFINE list == copy[Master][kind]
<1>1. Commit(kind, Drop(list, ref)) /\ UNCHANGED <<used, session, renamed, boundAt>>
  BY DEF RemoveEntry
<1>2. list \in Seq(Record[kind])
  BY InvFacts
<1>3. /\ Drop(list, ref) \in Seq(Record[kind])
      /\ Range(Drop(list, ref)) \subseteq Range(list)
      /\ Unique(list) => Unique(Drop(list, ref))
  BY <1>2, DropUnique
<1>4. /\ used' \subseteq Id /\ used \subseteq used' /\ renamed' \in BOOLEAN /\ (renamed => renamed')
      /\ session' \in [Operator -> Session \union {None}]
      /\ \A m \in Operator : session'[m] \in {session[m], None}
      /\ boundAt' \in [Kind -> [Id -> 0 .. MaxVersion]]
      /\ \A k \in Kind, i \in Id : boundAt'[k][i] \in {boundAt[k][i], version + 1}
  BY <1>1, InvFacts DEF TypeOK
<1>5. QED
  BY <1>1, <1>3, <1>4, CommitStep

\* The resolvers are no entries.
LEMMA ResolversStep ==
    ASSUME IInv, NEW r \in Resolver \union {None}, SetResolvers(r)
    PROVE  IInv'
<1> DEFINE c == [copy[Master] EXCEPT !["resolvers"] = r]
<1>1. /\ version < MaxVersion /\ version' = version + 1
      /\ copy' = [copy EXCEPT ![Master] = c] /\ read' = [read EXCEPT ![Master] = version + 1]
      /\ UNCHANGED <<used, session, renamed, boundAt>>
  BY DEF SetResolvers, Commit
<1>2. c \in Config /\ \A k \in Kind : c[k] = copy[Master][k]
  BY InvFacts, ConfigFacts
<1> HIDE DEF c
<1>3. /\ copy \in [Node -> Config] /\ read \in [Node -> 0 .. MaxVersion] /\ Master \in Node
      /\ version + 1 \in 0 .. MaxVersion
  BY <1>1, InvFacts DEF TypeOK
<1>4. Publishes(c)
  BY <1>1, <1>3 DEF Publishes
<1>5. Typed
  BY <1>1, <1>2, <1>3, InvFacts DEF Typed, TypeOK
<1>6. Admissible(c) /\ (renamed' \/ \A k \in Kind : Unique(c[k]))
  BY <1>1, <1>2, InvFacts DEF Admissible, UniqueUntilRenamed
<1>7. QED
  BY <1>1, <1>2, <1>4, <1>5, <1>6, PublishStep

\* An operator writes a list of records by hand.
LEMMA ByHandType ==
    ASSUME NEW kind \in Kind, NEW list \in Seq(Record[kind]), NEW out \in ByHand(kind, list)
    PROVE  out \in Seq(Record[kind])
<1>1. DOMAIN list = 1 .. Len(list) /\ Len(list) \in Nat
  BY LenProperties
<1>2. CASE \E k \in DOMAIN list : \E f \in Record[kind] : out = ReplaceAt(list, k, f)
  <2>1. PICK k \in 1 .. Len(list), f \in Record[kind] : out = ReplaceAt(list, k, f)
    BY <1>1, <1>2
  <2>2. out = [list EXCEPT ![k] = f]
    BY <2>1 DEF ReplaceAt
  <2>3. [list EXCEPT ![k] = f] \in Seq(Record[kind])
    BY ExceptSeq
  <2>4. QED
    BY <2>2, <2>3
<1>3. CASE \E k \in DOMAIN list : out = RemoveAt(list, k)
  <2>1. PICK k \in DOMAIN list : out = RemoveAt(list, k)
    BY <1>3
  <2>2. SubSeq(list, 1, k - 1) \in Seq(Record[kind])
    <3>1. 1 \in Int /\ k - 1 \in Int /\ \A i \in 1 .. k - 1 : list[i] \in Record[kind]
      BY <1>1, <2>1, ElementOfSeq
    <3>2. QED
      BY <3>1, SubSeqProperties
  <2>3. SubSeq(list, k + 1, Len(list)) \in Seq(Record[kind])
    <3>1. k + 1 \in Int /\ Len(list) \in Int /\ \A i \in k + 1 .. Len(list) : list[i] \in Record[kind]
      BY <1>1, <2>1, ElementOfSeq
    <3>2. QED
      BY <3>1, SubSeqProperties
  <2>4. QED
    BY <2>1, <2>2, <2>3, ConcatProperties DEF RemoveAt
<1>4. CASE \E f \in Record[kind] : out = Append(list, f)
  BY <1>4, AppendProperties
<1>5. \A k \in DOMAIN list : \A x : Keeping(kind, list[k], x) \subseteq Record[kind]
  BY DEF Keeping
<1>6. \A x : Without(Record[kind], x) \subseteq Record[kind]
  BY DEF Without
<1>7. \/ \E k \in DOMAIN list : \E x \in (Bound[kind] \union {"name"}) \ {"id"} :
            \E f \in Keeping(kind, list[k], DOMAIN list[k] \ {x}) : out = ReplaceAt(list, k, f)
      \/ \E k \in DOMAIN list : out = RemoveAt(list, k)
      \/ \E f \in Without(Record[kind], {"disabled", "resolvers"}) : out = Append(list, f)
  <2> DEFINE fields == (Bound[kind] \union {"name"}) \ {"id"}
             changed(k) == UNION {Keeping(kind, list[k], DOMAIN list[k] \ {x}) : x \in fields}
             A == UNION {{ReplaceAt(list, k, f) : f \in changed(k)} : k \in DOMAIN list}
  <2>1. out \in A => \E k \in DOMAIN list : \E f \in changed(k) : out = ReplaceAt(list, k, f)
    <3> HIDE DEF changed
    <3> QED
      OBVIOUS
  <2>2. \A k, f : f \in changed(k) => \E x \in fields : f \in Keeping(kind, list[k], DOMAIN list[k] \ {x})
    <3> HIDE DEF fields
    <3> QED
      OBVIOUS
  <2> DEFINE B == {RemoveAt(list, k) : k \in DOMAIN list}
             C == {Append(list, e) : e \in {f \in Without(Record[kind], {"disabled", "resolvers"}) :
                                              f.id \notin used}}
  <2>3. ByHand(kind, list) = A \union B \union C
    BY DEF ByHand
  <2>4. out \in B => \E k \in DOMAIN list : out = RemoveAt(list, k)
    OBVIOUS
  <2>5. out \in C => \E f \in Without(Record[kind], {"disabled", "resolvers"}) : out = Append(list, f)
    OBVIOUS
  <2> HIDE DEF A, B, C, changed
  <2>6. out \in A \/ out \in B \/ out \in C
    BY <2>3
  <2>7. QED
    BY <2>1, <2>2, <2>4, <2>5, <2>6
<1>8. QED
  BY <1>2, <1>3, <1>4, <1>5, <1>6, <1>7

\* A hand edit replaces the lists at the master by those of the host: what it
\* sets is set at the new version, and what it does not set the master has.
LEMMA HandEditStep ==
    ASSUME IInv, NEW n \in Node, NEW kind \in Kind, HandEdit(n, kind)
    PROVE  IInv'
<1>1. PICK list \in ByHand(kind, copy[n][kind]) :
         LET file == [copy[n] EXCEPT ![kind] = list]
         IN  /\ copy' = [copy EXCEPT ![n] = file, ![Master] = [file EXCEPT !["resolvers"] = None]]
             /\ boundAt' = [k \in Kind |->
                               LET bound == Binds(k, file[k])
                               IN  [i \in Id |-> IF i \in bound THEN version + 1 ELSE boundAt[k][i]]]
             /\ renamed' = (renamed \/ \E k \in Kind : Renames(k, file[k]))
             /\ used' = used \union Ids(Range(list))
  BY DEF HandEdit
<1> DEFINE file == [copy[n] EXCEPT ![kind] = list]
           c == [file EXCEPT !["resolvers"] = None]
<1>2. /\ version < MaxVersion /\ version' = version + 1
      /\ read' = [read EXCEPT ![n] = version + 1, ![Master] = version + 1]
      /\ UNCHANGED session
  BY DEF HandEdit
<1>3. list \in Seq(Record[kind]) /\ copy[n] \in Config
  BY InvFacts, ByHandType
<1>4. /\ file \in Config /\ file[kind] = list
      /\ \A k \in Kind \ {kind} : file[k] = copy[n][k]
  BY <1>3, ConfigWith
<1>5. /\ copy' = [copy EXCEPT ![n] = file, ![Master] = c]
      /\ boundAt' = [k \in Kind |->
                        [i \in Id |-> IF i \in Binds(k, file[k]) THEN version + 1 ELSE boundAt[k][i]]]
      /\ renamed' = (renamed \/ \E k \in Kind : Renames(k, file[k]))
      /\ used' = used \union Ids(Range(list))
  BY <1>1
<1> HIDE DEF file
<1>6. c \in Config /\ \A k \in Kind : c[k] = file[k]
  BY <1>4, ConfigFacts
<1> HIDE DEF c
<1>7. /\ copy \in [Node -> Config] /\ read \in [Node -> 0 .. MaxVersion] /\ Master \in Node
      /\ version + 1 \in 0 .. MaxVersion /\ used \subseteq Id /\ renamed \in BOOLEAN
      /\ session \in [Operator -> Session \union {None}]
      /\ boundAt \in [Kind -> [Id -> 0 .. MaxVersion]]
  BY <1>2, InvFacts DEF TypeOK
<1>8. Publishes(c)
  <2>1. \A k \in Kind : copy'[Master][k] = c[k]
    BY <1>5, <1>7
  <2>2. ASSUME NEW h \in Node
        PROVE  \/ copy'[h] = copy[h] /\ read'[h] = read[h]
               \/ (\A k \in Kind : copy'[h][k] = c[k]) /\ read'[h] = version + 1
    <3>1. CASE h = Master
      BY <1>2, <1>5, <1>7, <3>1
    <3>2. CASE h = n /\ h # Master
      BY <1>2, <1>5, <1>6, <1>7, <3>2
    <3>3. CASE h # n /\ h # Master
      BY <1>2, <1>5, <1>7, <3>3
    <3>4. QED
      BY <3>1, <3>2, <3>3
  <2>3. read'[Master] = version + 1
    BY <1>2, <1>7
  <2>4. \A k \in Kind, i \in Id : boundAt'[k][i] \in {boundAt[k][i], version + 1}
    BY <1>5
  <2>5. QED
    BY <1>2, <2>1, <2>2, <2>3, <2>4 DEF Publishes
<1>9. \A e \in Range(list) : e.id \in Id
  BY <1>3, RangeOfSeq, RecordFacts
<1>10. Typed
  <2>1. copy' \in [Node -> Config] /\ read' \in [Node -> 0 .. MaxVersion]
    BY <1>2, <1>4, <1>5, <1>6, <1>7
  <2>2. used' \subseteq Id
    BY <1>5, <1>7, <1>9 DEF Ids
  <2>3. boundAt' \in [Kind -> [Id -> 0 .. MaxVersion]]
    BY <1>5, <1>7
  <2>4. QED
    BY <1>2, <1>5, <1>7, <2>1, <2>2, <2>3 DEF Typed
<1>11. ASSUME NEW k \in Kind, NEW e \in Range(c[k])
       PROVE  /\ e.id \in used'
              /\ boundAt'[k][e.id] = version + 1 \/ Follows(k, e)
              /\ renamed' \/ \A f \in Records(k) : e.id = f.id => Agree(e, f, {"name"})
  <2>1. e \in Range(file[k]) /\ e \in Record[k] /\ e.id \in Id
    BY <1>4, <1>6, ConfigFacts, RangeOfSeq, RecordFacts
  <2>2. e.id \in used'
    <3>1. CASE k = kind
      BY <1>4, <1>5, <2>1, <3>1 DEF Ids
    <3>2. CASE k # kind
      BY <1>4, <1>5, <2>1, <3>2, InvFacts DEF TypeOK
    <3>3. QED
      BY <3>1, <3>2
  <2>3. boundAt'[k][e.id] = version + 1 \/ Follows(k, e)
    <3>1. CASE e.id \in Binds(k, file[k])
      BY <1>5, <2>1, <3>1
    <3>2. CASE e.id \notin Binds(k, file[k])
      <4>1. PICK f \in Range(copy[Master][k]) : e.id = f.id /\ Agree(e, f, Bound[k])
        BY <2>1, <3>2 DEF Binds, Ids
      <4>2. QED
        BY <4>1, FreshFacts DEF Follows
    <3>3. QED
      BY <3>1, <3>2
  <2>4. renamed' \/ \A f \in Records(k) : e.id = f.id => Agree(e, f, {"name"})
    BY <1>5, <2>1 DEF Renames
  <2>5. QED
    BY <2>2, <2>3, <2>4
<1>12. Admissible(c)
  BY <1>11 DEF Admissible
<1>13. (renamed => renamed') /\ used \subseteq used' /\ (renamed' \/ \A k \in Kind : Unique(c[k]))
  BY <1>5, <1>6 DEF Renames
<1>14. QED
  BY <1>6, <1>8, <1>10, <1>12, <1>13, PublishStep

\* An approval adds a peer, or gives one its certificate.
LEMMA ApproveStep ==
    ASSUME IInv, NEW e \in Record["peer"], Approve(e)
    PROVE  IInv'
<1> DEFINE list == copy[Master]["peer"]
<1>1. /\ Commit("peer", Upsert(list, e)) /\ used' = used \union {e.id}
      /\ boundAt' = IF e.id \in Binds("peer", <<e>>)
                    THEN [boundAt EXCEPT !["peer"] = [boundAt["peer"] EXCEPT ![e.id] = version + 1]]
                    ELSE boundAt
      /\ UNCHANGED <<session, renamed>>
  BY DEF Approve
<1>2. "peer" \in Kind /\ e.id \in Id
  BY KindFacts, RecordFacts
<1>3. list \in Seq(Record["peer"])
  BY <1>2, InvFacts
<1>4. /\ Upsert(list, e) \in Seq(Record["peer"])
      /\ Range(Upsert(list, e)) \subseteq Range(list) \union {e}
  BY <1>3, UpsertRange
<1>5. \A f \in Record["peer"] : Agree(e, f, {"name"}) /\ Agree(f, e, {"name"})
  BY DEF Record, Agree
<1>6. Unique(list) => Unique(Upsert(list, e))
  <2>1. \A i \in 1 .. Len(list) : list[i] \in Record["peer"]
    BY <1>3, ElementOfSeq
  <2> HIDE DEF list
  <2>2. QED
    BY <1>2, <1>3, <1>5, <2>1, UpsertUnique
<1>7. /\ boundAt \in [Kind -> [Id -> 0 .. MaxVersion]] /\ version + 1 \in 0 .. MaxVersion
      /\ used \subseteq Id /\ renamed \in BOOLEAN /\ session \in [Operator -> Session \union {None}]
  BY <1>1, InvFacts DEF TypeOK, Commit
<1>8. /\ boundAt' \in [Kind -> [Id -> 0 .. MaxVersion]]
      /\ \A k \in Kind, i \in Id : boundAt'[k][i] \in {boundAt[k][i], version + 1}
      /\ e.id \in Binds("peer", <<e>>) => boundAt'["peer"][e.id] = version + 1
  BY <1>1, <1>2, <1>7
<1>9. boundAt'["peer"][e.id] = version + 1 \/ Follows("peer", e)
  <2>1. CASE e.id \in Binds("peer", <<e>>)
    BY <1>8, <2>1
  <2>2. CASE e.id \notin Binds("peer", <<e>>)
    <3>1. e \in Range(<<e>>)
      BY DEF Range
    <3>2. PICK f \in Range(list) : e.id = f.id /\ Agree(e, f, Bound["peer"])
      BY <2>2, <3>1 DEF Binds, Ids
    <3>3. QED
      BY <1>2, <3>2, FreshFacts DEF Follows
  <2>3. QED
    BY <2>1, <2>2
<1>10. \A f \in Records("peer") : Agree(e, f, {"name"})
  BY <1>2, <1>5, FreshFacts
<1>11. /\ used' \subseteq Id /\ used \subseteq used' /\ renamed' \in BOOLEAN /\ (renamed => renamed')
       /\ session' \in [Operator -> Session \union {None}]
       /\ \A m \in Operator : session'[m] \in {session[m], None}
       /\ e.id \in used'
  BY <1>1, <1>2, <1>7
<1>12. \A x \in Range(Upsert(list, e)) :
          \/ x \in Range(list)
          \/ /\ x.id \in used'
             /\ renamed' \/ boundAt'["peer"][x.id] = version + 1 \/ Follows("peer", x) \/ New("peer", x.id)
             /\ renamed' \/ \A f \in Records("peer") : x.id = f.id => Agree(x, f, {"name"})
  BY <1>4, <1>9, <1>10, <1>11
<1>13. QED
  BY <1>1, <1>2, <1>4, <1>6, <1>8, <1>11, <1>12, CommitStep

LEMMA StepIInv ==
    ASSUME IInv, [Next]_vars
    PROVE  IInv'
<1>1. CASE \E n \in Node : CatchUp(n)
  BY <1>1, CatchUpStep
<1>2. CASE \E n \in Operator : Submit(n) \/ Abandon(n)
  BY <1>2, SubmitStep, AbandonStep
<1>3. CASE \E n \in Operator, kind \in Kind, ref \in Ref :
              \E how \in How[kind] : Open(n, kind, how, ref)
  BY <1>3, OpenStep
<1>4. CASE \E kind \in Kind : \E e \in Additions[kind] : AddEntry(kind, e)
  BY <1>4, AddStep
<1>5. CASE \E kind \in Kind, ref \in Ref : RemoveEntry(kind, ref)
  BY <1>5, RemoveStep
<1>6. CASE \E n \in Node, kind \in Kind :
              \E k \in DOMAIN copy[n][kind] : RemoveSelected(n, kind, k)
  BY <1>6, RemoveStep DEF RemoveSelected
<1>7. CASE \E r \in Resolver \union {None} : SetResolvers(r)
  BY <1>7, ResolversStep
<1>8. CASE \E n \in Node, kind \in Kind : HandEdit(n, kind)
  BY <1>8, HandEditStep
<1>9. CASE \E e \in Record.peer : Approve(e)
  BY <1>9, ApproveStep
<1>10. CASE UNCHANGED vars
  <2>1. /\ UNCHANGED <<copy, read, version, used, renamed, boundAt>> /\ UNCHANGED session
        /\ session \in [Operator -> Session \union {None}]
    BY <1>10, InvFacts DEF vars, TypeOK
  <2>2. QED
    BY <2>1, SessionStep
<1>11. QED
  BY <1>1, <1>2, <1>3, <1>4, <1>5, <1>6, <1>7, <1>8, <1>9, <1>10 DEF Next

LEMMA Inductive == Spec => []IInv
<1>1. IInv /\ [Next]_vars => IInv'
  BY StepIInv
<1>2. QED
  BY <1>1, InitIInv, PTL DEF Spec

\* The variables stay in their types: an edit makes a record of its kind, with
\* an ID that was given out.
THEOREM TypeCorrect == Spec => []TypeOK
<1>1. IInv => TypeOK
  BY DEF IInv
<1>2. QED
  BY <1>1, Inductive, PTL

\* Whatever is added, removed and edited from old copies at once, the IDs and
\* names at the master stay unique as long as no edit renames an entry
\* (the upserts of applyLocally, internal/replicate/replicator.go).
THEOREM UniqueTheorem == Spec => []UniqueUntilRenamed
<1>1. IInv => UniqueUntilRenamed
  BY DEF IInv
<1>2. QED
  BY <1>1, Inductive, PTL

\* Whoever has read an entry since its suppressions, its type or its
\* certificate were last set has them as they are: no edit made from such a
\* reading, by whatever command, form or key, changes them, and an older one
\* that does is a setting of its own (newEditCheckForm of
\* internal/tui/forms.go and the edit commands of internal/cli).
THEOREM BoundFieldsTheorem == Spec => []BoundFieldsAgree
<1>1. IInv => BoundFieldsAgree
  BY DEF IInv
<1>2. QED
  BY <1>1, Inductive, PTL
==============================================================================
