------------------------- MODULE NotificationsProofs -------------------------
(***************************************************************************)
(* Theorems of Notifications, for every number of users, filters, threads, *)
(* services, operations and forms.                                         *)
(*                                                                         *)
(* A filter that is being saved is neither what it was nor what its owner  *)
(* asked for, so no single wish explains it.  Covered says that each of    *)
(* its criteria comes from some wish (a filter that matches nothing fails  *)
(* one criterion, and the wish that criterion comes from fails too), and   *)
(* Clean that a filter no form was cut off on is a wish as it stands.      *)
(* What a form still has to save, and whether it is alone with its filter, *)
(* is what makes the two inductive.                                        *)
(*                                                                         *)
(* A mail reads a filter in several queries, so no single moment explains  *)
(* what it finds either.  What each query says no to was meant to say no   *)
(* at the moment of that query (NoIsMeant), and a filter that went through *)
(* all of them undisturbed was meant to say yes (YesIsMeant); the          *)
(* histories meant and hazy carry that to the end of the mail.             *)
(***************************************************************************)
EXTENDS Notifications, TLAPS

SaveRecord == [at : {"services", "operations"}, filter : Filter, row : Row, alone : BOOLEAN]

(* Every column, and what every form holds, has a value of its type. *)
FormTypeOK ==
    /\ filter \in [Filter -> Row \union {None}]
    /\ service \subseteq Service /\ operation \subseteq Operation
    /\ posted \in 0..MaxPost
    /\ thread \in [Web -> {Idle} \union SaveRecord]
    /\ wish \in [Filter -> SUBSET (Row \union {None})]
    /\ blurred \subseteq Filter

-----------------------------------------------------------------------------
(* Whatever the items a select, the items b select too, of those that exist. *)
Admits(a, b, existing) ==
    \A item \in existing \union {Other} : Selected(a, item) => Selected(b, item)

SameOwner(a, b) == a.owner = b.owner /\ a.kind = b.kind
SameRow(a, b) == SameOwner(a, b) /\ a.states = b.states /\ a.when = b.when

(* A form and the filter it saves. *)
FormOK(h, f, row) ==
    /\ filter[f] # None => row \in wish[f] /\ SameOwner(row, filter[f])
    /\ thread[h].alone =>
          /\ filter[f] # None /\ SameRow(row, filter[f])
          /\ \A g \in Web : Saving(g, f) => g = h
          /\ At(h, "operations") =>
                /\ Admits(row.services, filter[f].services, service)
                /\ row.services \subseteq service => filter[f].services = row.services

FormsOK ==
    \A h \in Web : \A f \in Filter, row \in Row :
        Saving(h, f) /\ thread[h].row = row => FormOK(h, f, row)

(* Each criterion of a filter comes from a wish, or is wider. *)
Covered(f) ==
    IF filter[f] = None THEN None \in wish[f]
    ELSE /\ \E w \in wish[f] : w # None /\ SameRow(w, filter[f])
         /\ \E w \in wish[f] : /\ w # None /\ SameOwner(w, filter[f])
                               /\ Admits(w.services, filter[f].services, service)
         /\ \E w \in wish[f] : /\ w # None /\ SameOwner(w, filter[f])
                               /\ Admits(w.operations, filter[f].operations, operation)

(* A filter no form is at work on, and no form was cut off on, is a wish. *)
Clean(f) ==
    filter[f] # None /\ f \notin blurred /\ (\A h \in Web : ~Saving(h, f)) => filter[f] \in wish[f]

IInv == FormTypeOK /\ FormsOK /\ \A f \in Filter : Covered(f) /\ Clean(f)

-----------------------------------------------------------------------------
(* Rows and forms. *)

LEMMA RowIsItsFields ==
  ASSUME NEW a \in Row, NEW b \in Row, SameRow(a, b),
         a.services = b.services, a.operations = b.operations
  PROVE  a = b
  BY DEF Row, SameRow, SameOwner

WithLists(row, services, operations) ==
    [row EXCEPT !.services = services, !.operations = operations]

LEMMA RowChanges ==
  ASSUME NEW a \in Row, NEW s \in SUBSET Service, NEW o \in SUBSET Operation
  PROVE  /\ WithLists(a, s, o) \in Row
         /\ SameRow(WithLists(a, s, o), a)
         /\ WithLists(a, s, o).services = s
         /\ WithLists(a, s, o).operations = o
  BY DEF Row, SameRow, SameOwner, WithLists

LEMMA OneList ==
  ASSUME NEW a \in Row, NEW s \in SUBSET Service, NEW o \in SUBSET Operation
  PROVE  /\ [a EXCEPT !.services = s] = WithLists(a, s, a.operations)
         /\ [a EXCEPT !.operations = o] = WithLists(a, a.services, o)
  BY DEF Row, WithLists

LEMMA SameIsEquivalence ==
  /\ \A a, b, c : SameOwner(a, b) /\ SameOwner(b, c) => SameOwner(a, c)
  /\ \A a, b, c : SameRow(a, b) /\ SameRow(b, c) => SameRow(a, c)
  /\ \A a, b : SameRow(a, b) => SameRow(b, a) /\ SameOwner(a, b) /\ SameOwner(b, a)
  /\ \A a, b : SameOwner(a, b) => SameOwner(b, a)
  BY DEF SameOwner, SameRow

LEMMA AdmitsAlways ==
  /\ \A a, b, existing : b = a \/ b = {} => Admits(a, b, existing)
  BY DEF Admits, Selected

(* What exists shrinks, and what was deleted leaves the list. *)
LEMMA AdmitsLess ==
  ASSUME NEW a, NEW b, NEW existing, NEW ids, Other \notin ids, Admits(a, b, existing)
  PROVE  Admits(a, b \ ids, existing \ ids)
  BY DEF Admits, Selected

LEMMA FormRecord ==
  ASSUME FormTypeOK, NEW h \in Web
  PROVE  /\ thread[h].at \in {"services", "operations"} =>
               thread[h] \in SaveRecord /\ thread[h].filter \in Filter /\ thread[h].row \in Row
         /\ thread[h].at \in {"idle", "services", "operations"}
  BY DEF FormTypeOK, Idle, SaveRecord

(* Another page of the filter makes a form lose its claim, and nothing else. *)
LEMMA DisturbedForm ==
  ASSUME FormTypeOK, NEW f \in Filter, NEW g \in Web
  PROVE  /\ Disturbed(f)[g] \in {Idle} \union SaveRecord
         /\ Disturbed(f)[g].at = thread[g].at
         /\ thread[g].at \in {"services", "operations"} =>
               /\ Disturbed(f)[g].filter = thread[g].filter /\ Disturbed(f)[g].row = thread[g].row
               /\ Disturbed(f)[g].alone => thread[g].alone /\ thread[g].filter # f
  <1>1. CASE Saving(g, f)
    <2>1. thread[g] \in SaveRecord /\ thread[g].at \in {"services", "operations"}
      BY <1>1, FormRecord DEF Saving
    <2>2. Disturbed(f)[g] = [thread[g] EXCEPT !.alone = FALSE]
      BY <1>1 DEF Disturbed
    <2> QED
      BY <2>1, <2>2 DEF SaveRecord
  <1>2. CASE ~Saving(g, f)
    <2>1. Disturbed(f)[g] = thread[g]
      BY <1>2 DEF Disturbed
    <2> QED
      BY <1>2, <2>1 DEF FormTypeOK, Saving
  <1> QED
    BY <1>1, <1>2

-----------------------------------------------------------------------------
(* IInv is kept. *)

(* A thread is done with its form; a form that was cut off is noted. *)
LEMMA OtherThreadKeeps ==
  ASSUME IInv, NEW h \in Web,
         thread' = [thread EXCEPT ![h] = Idle],
         UNCHANGED <<filter, service, operation, posted, wish>>,
         blurred' \in SUBSET Filter, blurred \subseteq blurred',
         thread[h].at \in {"services", "operations"} => thread[h].filter \in blurred'
  PROVE  IInv'
  <1>1. FormTypeOK'
    BY DEF IInv, FormTypeOK
  <1>2. thread'[h] = Idle /\ Idle.at \notin {"services", "operations"}
        /\ \A g \in Web : g # h => thread'[g] = thread[g]
    BY DEF IInv, FormTypeOK, Idle
  <1>3. FormsOK'
    BY <1>2 DEF IInv, FormsOK, FormOK, Saving, At
  <1>4. \A f \in Filter : Covered(f)'
    BY DEF IInv, Covered
  <1>5. \A f \in Filter : Clean(f)'
    BY <1>2 DEF IInv, Clean, Saving
  <1> QED
    BY <1>1, <1>3, <1>4, <1>5 DEF IInv

LEMMA CutOffKeeps ==
  ASSUME IInv, NEW h \in Web, thread[h].at \in {"services", "operations"}, CutOff(h)
  PROVE  IInv'
  BY OtherThreadKeeps, FormRecord DEF CutOff, End, Go, IInv, FormTypeOK

LEMMA CrashKeeps == ASSUME IInv, NEW h \in Web, Crash(h) PROVE IInv'
  BY CutOffKeeps, FormRecord DEF Crash, At, IInv

(* The first commit of a form: the row is what its owner asks for, the lists are the old ones. *)
LEMMA PostKeeps ==
  ASSUME IInv, NEW h \in Web, NEW f \in Filter, NEW row \in Row,
         NEW s \in SUBSET Service, NEW o \in SUBSET Operation,
         Post(h, f, row, s, o),
         filter[f] # None => /\ SameOwner(row, filter[f])
                             /\ s = filter[f].services
                             /\ o = filter[f].operations,
         filter[f] = None => /\ s = {} /\ o = {}
                             /\ \A g \in Web : ~Saving(g, f)
  PROVE  IInv'
  <1> DEFINE new == WithLists(row, s, o)
             alone == \A g \in Web : ~Saving(g, f)
             form == [at |-> "services", filter |-> f, row |-> row, alone |-> alone]
  <1>1. /\ new \in Row /\ SameRow(new, row) /\ new.services = s
        /\ new.operations = o
    BY RowChanges
  <1>2. /\ form \in SaveRecord /\ form.at = "services" /\ form.filter = f /\ form.row = row
        /\ form.alone <=> \A g \in Web : ~Saving(g, f)
    <2>1. alone \in BOOLEAN /\ (alone <=> \A g \in Web : ~Saving(g, f))
      OBVIOUS
    <2> HIDE DEF alone
    <2> QED
      BY <2>1 DEF SaveRecord
  <1>3. /\ filter' = [filter EXCEPT ![f] = new]
        /\ thread' = [Disturbed(f) EXCEPT ![h] = form]
        /\ wish' = [wish EXCEPT ![f] = @ \union {row}]
        /\ UNCHANGED <<service, operation, blurred>>
        /\ thread[h].at = "idle"
        /\ posted' = posted + 1 /\ posted < MaxPost
    BY DEF Post, At, WithLists
  <1> HIDE DEF new, form, alone
  <1> new # None
    BY <1>1, NoneIsNoRow
  <1>4. /\ thread'[h] = form
        /\ \A g \in Web : g # h => thread'[g] = Disturbed(f)[g]
    BY <1>3 DEF Disturbed
  <1>5. /\ filter'[f] = new /\ wish'[f] = wish[f] \union {row}
        /\ \A k \in Filter : k # f => filter'[k] = filter[k] /\ wish'[k] = wish[k]
    BY <1>3 DEF IInv, FormTypeOK
  <1>6. FormTypeOK'
    <2>1. \A g \in Web : thread'[g] \in {Idle} \union SaveRecord
      BY <1>2, <1>4, DisturbedForm DEF IInv
    <2>2. thread' \in [Web -> {Idle} \union SaveRecord]
      BY <1>3, <2>1 DEF Disturbed
    <2>3. posted' \in 0..MaxPost
      BY <1>3, Distinct DEF IInv, FormTypeOK
    <2> QED
      BY <1>1, <1>3, <2>2, <2>3 DEF IInv, FormTypeOK
  <1>7. \A g \in Web, k \in Filter : Saving(g, k)' <=> Saving(g, k) \/ (g = h /\ k = f)
    <2> SUFFICES ASSUME NEW g \in Web, NEW k \in Filter
                 PROVE  Saving(g, k)' <=> Saving(g, k) \/ (g = h /\ k = f)
      OBVIOUS
    <2>1. CASE g = h
      BY <1>2, <1>3, <1>4, <2>1 DEF Saving
    <2>2. CASE g # h
      BY <1>4, <2>2, DisturbedForm DEF Saving, IInv
    <2> QED
      BY <2>1, <2>2
  <1>8. FormsOK'
    <2> SUFFICES ASSUME NEW g \in Web, NEW k \in Filter, NEW asked \in Row,
                        Saving(g, k)', thread'[g].row = asked
                 PROVE  FormOK(g, k, asked)'
      BY DEF FormsOK
    <2>1. CASE g = h
      <3>1. k = f /\ asked = row /\ (form.alone => \A q \in Web : Saving(q, f)' => q = h)
        BY <1>2, <1>4, <1>7, <2>1 DEF Saving
      <3>2. ~At(h, "operations")' /\ (thread'[h].alone <=> form.alone)
        BY <1>2, <1>4 DEF At
      <3>3. SameOwner(row, filter'[f]) /\ SameRow(row, filter'[f]) /\ filter'[f] # None
        BY <1>1, <1>5, SameIsEquivalence
      <3> QED
        BY <1>5, <2>1, <3>1, <3>2, <3>3 DEF FormOK
    <2>2. CASE g # h
      <3>1. /\ Saving(g, k) /\ thread[g].row = asked
            /\ thread'[g].at = thread[g].at
            /\ thread'[g].alone => thread[g].alone /\ k # f
        BY <1>4, <1>7, <2>2, DisturbedForm, FormRecord DEF IInv, Saving
      <3>2. FormOK(g, k, asked)
        BY <3>1 DEF IInv, FormsOK
      <3>3. CASE k = f
        <4>1. filter[f] # None /\ SameOwner(row, filter[f]) /\ SameOwner(asked, filter[f])
          BY <3>1, <3>2, <3>3 DEF FormOK
        <4>2. SameOwner(asked, filter'[f]) /\ asked \in wish'[f]
          BY <1>1, <1>5, <3>2, <3>3, <4>1, SameIsEquivalence DEF FormOK
        <4>3. ~thread'[g].alone
          BY <3>1, <3>3
        <4> QED
          BY <3>3, <4>2, <4>3 DEF FormOK
      <3>4. CASE k # f
        <4>1. filter'[k] = filter[k] /\ wish'[k] = wish[k]
          BY <1>5, <3>4
        <4>2. \A q \in Web : Saving(q, k)' <=> Saving(q, k)
          BY <1>7, <3>4
        <4> QED
          BY <1>3, <3>1, <3>2, <4>1, <4>2 DEF FormOK, At
      <3> QED
        BY <3>3, <3>4
    <2> QED
      BY <2>1, <2>2
  <1>9. ASSUME NEW k \in Filter PROVE Covered(k)'
    <2>1. CASE k = f
      <3>1. row \in wish'[f] /\ row # None /\ SameRow(row, filter'[f]) /\ SameOwner(row, filter'[f])
        BY <1>1, <1>5, SameIsEquivalence, NoneIsNoRow
      <3>2. CASE filter[f] = None
        <4>1. filter'[f].services = {} /\ filter'[f].operations = {}
          BY <1>1, <1>5, <3>2
        <4>2. Admits(row.services, filter'[f].services, service')
              /\ Admits(row.operations, filter'[f].operations, operation')
          BY <4>1, AdmitsAlways
        <4> QED
          BY <1>1, <1>5, <2>1, <3>1, <4>2 DEF Covered
      <3>3. CASE filter[f] # None
        <4>1. Covered(f) /\ SameOwner(filter[f], filter'[f])
          BY <1>1, <1>5, <3>3, SameIsEquivalence DEF IInv
        <4>2. \E w \in wish'[f] : /\ w # None /\ SameOwner(w, filter'[f])
                                  /\ Admits(w.services, filter'[f].services, service')
          BY <1>1, <1>3, <1>5, <3>3, <4>1, SameIsEquivalence DEF Covered
        <4>3. \E w \in wish'[f] : /\ w # None /\ SameOwner(w, filter'[f])
                                  /\ Admits(w.operations, filter'[f].operations, operation')
          BY <1>1, <1>3, <1>5, <3>3, <4>1, SameIsEquivalence DEF Covered
        <4> QED
          BY <1>1, <1>5, <2>1, <3>1, <4>2, <4>3 DEF Covered
      <3> QED
        BY <3>2, <3>3
    <2>2. CASE k # f
      BY <1>3, <1>5, <2>2 DEF IInv, Covered
    <2> QED
      BY <2>1, <2>2
  <1>10. ASSUME NEW k \in Filter PROVE Clean(k)'
    BY <1>3, <1>5, <1>7 DEF IInv, Clean
  <1> QED
    BY <1>6, <1>8, <1>9, <1>10 DEF IInv

LEMMA CreateKeeps ==
  ASSUME IInv, NEW h \in Web, NEW f \in Filter, NEW row \in Row, Create(h, f, row)
  PROVE  IInv'
  BY PostKeeps DEF Create

LEMMA EditKeeps ==
  ASSUME IInv, NEW h \in Web, NEW f \in Filter, NEW row \in Row, Edit(h, f, row)
  PROVE  IInv'
  <1>1. filter[f] \in Row
    BY DEF Edit, IInv, FormTypeOK
  <1>2. filter[f].services \in SUBSET Service /\ filter[f].operations \in SUBSET Operation
    BY <1>1 DEF Row
  <1> QED
    BY <1>2, PostKeeps DEF Edit, SameOwner

(* The second commit: the services are those that were asked for, whatever they were. *)
LEMMA SaveServicesKeeps == ASSUME IInv, NEW h \in Web, SaveServices(h) PROVE IInv'
  <1>1. PICK f \in Filter, row \in Row :
           /\ Saving(h, f) /\ thread[h].filter = f /\ thread[h].row = row
           /\ thread[h] \in SaveRecord
    BY FormRecord DEF SaveServices, At, Saving, IInv
  <1>2. CASE Refused(h, row.services, service)
    BY <1>1, <1>2, CutOffKeeps DEF SaveServices, At
  <1>3. CASE ~Refused(h, row.services, service)
    <2> DEFINE form == [thread[h] EXCEPT !.at = "operations"]
    <2>1. /\ filter' = IF filter[f] = None THEN filter ELSE [filter EXCEPT ![f].services = row.services]
          /\ thread' = [thread EXCEPT ![h] = form]
          /\ UNCHANGED <<service, operation, wish, blurred, posted>>
      BY <1>1, <1>3 DEF SaveServices, Go
    <2>2. /\ form \in SaveRecord /\ form.at = "operations" /\ form.filter = f
          /\ form.row = row /\ form.alone = thread[h].alone
      BY <1>1 DEF SaveRecord
    <2>3. FormOK(h, f, row)
      BY <1>1 DEF IInv, FormsOK
    <2> HIDE DEF form
    <2>4. /\ filter[f] = None => filter'[f] = None
          /\ filter[f] # None => /\ filter'[f] = WithLists(filter[f], row.services, filter[f].operations)
                                 /\ filter'[f] \in Row /\ SameRow(filter'[f], filter[f])
                                 /\ filter'[f].services = row.services
                                 /\ filter'[f].operations = filter[f].operations
      <3>1. row.services \in SUBSET Service
        BY <1>1 DEF Row
      <3>2. CASE filter[f] # None
        <4>1. filter[f] \in Row /\ filter[f].operations \in SUBSET Operation
          BY <1>1, <3>2 DEF IInv, FormTypeOK, Row
        <4>2. filter'[f] = [filter[f] EXCEPT !.services = row.services]
          BY <1>1, <2>1, <3>2 DEF IInv, FormTypeOK
        <4>3. filter'[f] = WithLists(filter[f], row.services, filter[f].operations)
          BY <3>1, <4>1, <4>2, OneList
        <4> QED
          BY <3>1, <3>2, <4>1, <4>3, RowChanges
      <3> QED
        BY <2>1, <3>2
    <2>5. \A k \in Filter : k # f => filter'[k] = filter[k]
      BY <2>1 DEF IInv, FormTypeOK
    <2>6. filter[f] # None => filter'[f] # None
      BY <2>4, NoneIsNoRow
    <2>7. thread'[h] = form /\ \A g \in Web : g # h => thread'[g] = thread[g]
      BY <2>1 DEF IInv, FormTypeOK
    <2>8. FormTypeOK'
      <3>1. thread' \in [Web -> {Idle} \union SaveRecord]
        BY <2>1, <2>2 DEF IInv, FormTypeOK
      <3>2. filter' \in [Filter -> Row \union {None}]
        <4>1. \A k \in Filter : filter'[k] \in Row \union {None}
          BY <2>4, <2>5 DEF IInv, FormTypeOK
        <4>2. filter' = [k \in Filter |-> filter'[k]]
          BY <2>1 DEF IInv, FormTypeOK
        <4> QED
          BY <4>1, <4>2
      <3> QED
        BY <2>1, <3>1, <3>2 DEF IInv, FormTypeOK
    <2>9. \A g \in Web, k \in Filter : Saving(g, k)' <=> Saving(g, k)
      BY <1>1, <2>2, <2>7 DEF Saving
    <2>10. FormsOK'
      <3> SUFFICES ASSUME NEW g \in Web, NEW k \in Filter, NEW asked \in Row,
                          Saving(g, k)', thread'[g].row = asked
                   PROVE  FormOK(g, k, asked)'
        BY DEF FormsOK
      <3>1. Saving(g, k) /\ thread[g].row = asked /\ thread'[g].alone = thread[g].alone
        BY <1>1, <2>2, <2>7, <2>9
      <3>2. FormOK(g, k, asked)
        BY <3>1 DEF IInv, FormsOK
      <3>3. CASE g = h
        <4>1. k = f /\ asked = row
          BY <1>1, <3>1, <3>3 DEF Saving
        <4>2. filter'[f] # None => row \in wish[f] /\ SameOwner(row, filter'[f])
          BY <2>3, <2>4, SameIsEquivalence DEF FormOK
        <4>3. thread[h].alone => /\ filter'[f] # None /\ SameRow(row, filter'[f])
                                 /\ \A q \in Web : Saving(q, f)' => q = h
          BY <1>1, <2>3, <2>4, <2>6, <2>9, SameIsEquivalence DEF FormOK
        <4>4. thread[h].alone => filter'[f].services = row.services
          BY <2>3, <2>4 DEF FormOK
        <4> QED
          BY <2>1, <3>1, <3>3, <4>1, <4>2, <4>3, <4>4, AdmitsAlways DEF FormOK
      <3>4. CASE g # h /\ k = f
        <4>1. ~thread[g].alone
          BY <1>1, <3>2, <3>4 DEF FormOK
        <4>2. filter'[f] # None => asked \in wish'[f] /\ SameOwner(asked, filter'[f])
          BY <2>1, <2>4, <3>2, <3>4, SameIsEquivalence DEF FormOK
        <4> QED
          BY <3>1, <3>4, <4>1, <4>2 DEF FormOK
      <3>5. CASE g # h /\ k # f
        BY <2>1, <2>5, <2>7, <2>9, <3>2, <3>5 DEF FormOK, At
      <3> QED
        BY <3>3, <3>4, <3>5
    <2>11. ASSUME NEW k \in Filter PROVE Covered(k)'
      <3>1. CASE k = f /\ filter[f] # None
        <4>1. row \in wish[f] /\ row # None /\ SameOwner(row, filter'[f])
              /\ SameOwner(filter[f], filter'[f])
          BY <1>1, <2>3, <2>4, <3>1, SameIsEquivalence, NoneIsNoRow DEF FormOK
        <4>2. Covered(f)
          BY <1>1 DEF IInv
        <4>3. \E w \in wish[f] : w # None /\ SameRow(w, filter'[f])
          BY <2>4, <3>1, <4>2, SameIsEquivalence DEF Covered
        <4>4. \E w \in wish[f] : /\ w # None /\ SameOwner(w, filter'[f])
                                 /\ Admits(w.services, filter'[f].services, service)
          BY <2>4, <3>1, <4>1, AdmitsAlways
        <4>5. \E w \in wish[f] : /\ w # None /\ SameOwner(w, filter'[f])
                                 /\ Admits(w.operations, filter'[f].operations, operation)
          BY <2>4, <3>1, <4>1, <4>2, SameIsEquivalence DEF Covered
        <4> QED
          BY <2>1, <2>6, <3>1, <4>3, <4>4, <4>5 DEF Covered
      <3>2. CASE k # f \/ filter[f] = None
        BY <2>1, <2>4, <2>5, <3>2 DEF IInv, Covered
      <3> QED
        BY <3>1, <3>2
    <2>12. ASSUME NEW k \in Filter PROVE Clean(k)'
      <3>1. CASE k = f
        BY <1>1, <2>9, <3>1 DEF Clean
      <3>2. CASE k # f
        BY <2>1, <2>5, <2>9, <3>2 DEF Clean, IInv
      <3> QED
        BY <3>1, <3>2
    <2> QED
      BY <2>8, <2>10, <2>11, <2>12 DEF IInv
  <1> QED
    BY <1>2, <1>3

(* The third commit: the form is through, and if it was alone its row is all that is meant. *)
LEMMA SaveOperationsKeeps == ASSUME IInv, NEW h \in Web, SaveOperations(h) PROVE IInv'
  <1>1. PICK f \in Filter, row \in Row :
           /\ Saving(h, f) /\ thread[h].filter = f /\ thread[h].row = row
           /\ thread[h] \in SaveRecord /\ At(h, "operations")
    BY FormRecord DEF SaveOperations, At, Saving, IInv
  <1>2. CASE Refused(h, row.operations, operation)
    BY <1>1, <1>2, CutOffKeeps DEF SaveOperations, At
  <1>3. CASE ~Refused(h, row.operations, operation)
    <2>1. /\ filter' = IF filter[f] = None THEN filter ELSE [filter EXCEPT ![f].operations = row.operations]
          /\ thread' = [thread EXCEPT ![h] = Idle]
          /\ wish' = [wish EXCEPT ![f] = IF thread[h].alone THEN {row} ELSE wish[f]]
          /\ blurred' = IF thread[h].alone /\ row.services \subseteq service
                        THEN blurred \ {f} ELSE blurred \union {f}
          /\ UNCHANGED <<service, operation, posted>>
      BY <1>1, <1>3 DEF SaveOperations, End, Go, Settled
    <2>2. FormOK(h, f, row)
      BY <1>1 DEF IInv, FormsOK
    <2>3. /\ wish'[f] = IF thread[h].alone THEN {row} ELSE wish[f]
          /\ \A k \in Filter : k # f => filter'[k] = filter[k] /\ wish'[k] = wish[k]
      BY <2>1 DEF IInv, FormTypeOK
    <2>4. /\ filter[f] = None => filter'[f] = None
          /\ filter[f] # None => /\ filter'[f] = WithLists(filter[f], filter[f].services, row.operations)
                                 /\ filter'[f] \in Row /\ SameRow(filter'[f], filter[f])
                                 /\ filter'[f].services = filter[f].services
                                 /\ filter'[f].operations = row.operations
      <3>1. row.operations \in SUBSET Operation
        BY <1>1 DEF Row
      <3>2. CASE filter[f] # None
        <4>1. filter[f] \in Row /\ filter[f].services \in SUBSET Service
          BY <1>1, <3>2 DEF IInv, FormTypeOK, Row
        <4>2. filter'[f] = [filter[f] EXCEPT !.operations = row.operations]
          BY <1>1, <2>1, <3>2 DEF IInv, FormTypeOK
        <4>3. filter'[f] = WithLists(filter[f], filter[f].services, row.operations)
          BY <3>1, <4>1, <4>2, OneList
        <4> QED
          BY <3>1, <3>2, <4>1, <4>3, RowChanges
      <3> QED
        BY <2>1, <3>2
    <2>5. filter[f] # None => filter'[f] # None
      BY <2>4, NoneIsNoRow
    <2>6. ~At(h, "services")' /\ ~At(h, "operations")'
          /\ \A g \in Web : g # h => thread'[g] = thread[g]
      BY <2>1 DEF IInv, FormTypeOK, At, Idle
    <2>7. FormTypeOK'
      <3>1. filter' \in [Filter -> Row \union {None}]
        <4>1. \A k \in Filter : filter'[k] \in Row \union {None}
          BY <2>3, <2>4 DEF IInv, FormTypeOK
        <4>2. filter' = [k \in Filter |-> filter'[k]]
          BY <2>1 DEF IInv, FormTypeOK
        <4> QED
          BY <4>1, <4>2
      <3>2. wish' \in [Filter -> SUBSET (Row \union {None})]
        BY <1>1, <2>1 DEF IInv, FormTypeOK
      <3> QED
        BY <1>1, <2>1, <3>1, <3>2 DEF IInv, FormTypeOK
    <2>8. \A g \in Web, k \in Filter : Saving(g, k)' <=> Saving(g, k) /\ g # h
      BY <2>6 DEF Saving, At
    <2>9. FormsOK'
      <3> SUFFICES ASSUME NEW g \in Web, NEW k \in Filter, NEW asked \in Row,
                          Saving(g, k)', thread'[g].row = asked
                   PROVE  FormOK(g, k, asked)'
        BY DEF FormsOK
      <3>1. g # h /\ Saving(g, k) /\ thread[g].row = asked /\ thread'[g] = thread[g]
        BY <2>6, <2>8
      <3>2. FormOK(g, k, asked)
        BY <3>1 DEF IInv, FormsOK
      <3>3. CASE k = f
        <4>1. ~thread[g].alone /\ ~thread[h].alone
          BY <1>1, <2>2, <3>1, <3>2, <3>3 DEF FormOK
        <4>2. filter'[f] # None => asked \in wish'[f] /\ SameOwner(asked, filter'[f])
          BY <2>3, <2>4, <3>2, <3>3, <4>1, SameIsEquivalence DEF FormOK
        <4> QED
          BY <3>1, <3>3, <4>1, <4>2 DEF FormOK
      <3>4. CASE k # f
        <4>1. thread'[g].alone => \A q \in Web : Saving(q, k)' => q = g
          BY <2>8, <3>1, <3>2 DEF FormOK
        <4> QED
          BY <2>1, <2>3, <3>1, <3>2, <3>4, <4>1 DEF FormOK, At
      <3> QED
        BY <3>3, <3>4
    <2>10. ASSUME NEW k \in Filter PROVE Covered(k)'
      <3>1. CASE k = f /\ filter[f] # None
        <4>1. row \in wish[f] /\ row \in wish'[f] /\ row # None /\ SameOwner(row, filter'[f])
              /\ SameOwner(filter[f], filter'[f]) /\ Covered(f)
          BY <1>1, <2>2, <2>3, <2>4, <3>1, SameIsEquivalence, NoneIsNoRow DEF FormOK, IInv
        <4>2. \E w \in wish'[f] : w # None /\ SameRow(w, filter'[f])
          <5>1. CASE thread[h].alone
            BY <2>2, <2>3, <2>4, <3>1, <4>1, <5>1, SameIsEquivalence DEF FormOK
          <5>2. CASE ~thread[h].alone
            BY <2>3, <2>4, <3>1, <4>1, <5>2, SameIsEquivalence DEF Covered
          <5> QED
            BY <5>1, <5>2
        <4>3. \E w \in wish'[f] : /\ w # None /\ SameOwner(w, filter'[f])
                                  /\ Admits(w.services, filter'[f].services, service)
          <5>1. CASE thread[h].alone
            BY <1>1, <2>2, <2>4, <3>1, <4>1, <5>1 DEF FormOK
          <5>2. CASE ~thread[h].alone
            BY <2>3, <2>4, <3>1, <4>1, <5>2, SameIsEquivalence DEF Covered
          <5> QED
            BY <5>1, <5>2
        <4>4. \E w \in wish'[f] : /\ w # None /\ SameOwner(w, filter'[f])
                                  /\ Admits(w.operations, filter'[f].operations, operation)
          BY <2>4, <3>1, <4>1, AdmitsAlways
        <4> QED
          BY <2>1, <2>5, <3>1, <4>2, <4>3, <4>4 DEF Covered
      <3>2. CASE k = f /\ filter[f] = None
        <4>1. ~thread[h].alone
          BY <2>2, <3>2 DEF FormOK
        <4> QED
          BY <2>3, <2>4, <3>2, <4>1 DEF IInv, Covered
      <3>3. CASE k # f
        BY <2>1, <2>3, <3>3 DEF IInv, Covered
      <3> QED
        BY <3>1, <3>2, <3>3
    <2>11. ASSUME NEW k \in Filter PROVE Clean(k)'
      <3>1. CASE k = f
        <4> SUFFICES ASSUME filter'[f] # None, f \notin blurred'
                     PROVE  filter'[f] \in wish'[f]
          BY <3>1 DEF Clean
        <4>1. thread[h].alone /\ row.services \subseteq service /\ filter[f] # None
          BY <2>1, <2>4
        <4>2. filter[f].services = row.services /\ SameRow(row, filter[f])
          BY <1>1, <2>2, <4>1 DEF FormOK
        <4>3. filter'[f] = row
          BY <1>1, <2>4, <4>1, <4>2, RowIsItsFields, SameIsEquivalence
        <4> QED
          BY <2>3, <4>1, <4>3
      <3>2. CASE k # f
        <4>1. k \in blurred <=> k \in blurred'
          BY <2>1, <3>2
        <4>2. \A g \in Web : Saving(g, k) => g # h
          BY <1>1, <3>2 DEF Saving
        <4> QED
          BY <2>3, <2>8, <3>2, <4>1, <4>2 DEF Clean, IInv
      <3> QED
        BY <3>1, <3>2
    <2> QED
      BY <2>7, <2>9, <2>10, <2>11 DEF IInv
  <1> QED
    BY <1>2, <1>3

(* The forms that are still saving a filter that is gone lose their claim to it. *)
LEMMA DeleteFilterKeeps == ASSUME IInv, NEW f \in Filter, DeleteFilter(f) PROVE IInv'
  <1>1. /\ filter'[f] = None /\ None \in wish'[f]
        /\ \A k \in Filter : k # f => filter'[k] = filter[k] /\ wish'[k] = wish[k]
        /\ \A k \in Filter : k # f => (k \in blurred' <=> k \in blurred)
        /\ \A g \in Web : thread'[g] = Disturbed(f)[g]
        /\ UNCHANGED <<service, operation, posted>>
    BY DEF DeleteFilter, IInv, FormTypeOK
  <1>2. FormTypeOK'
    <2>1. thread' \in [Web -> {Idle} \union SaveRecord]
      <3>1. \A g \in Web : thread'[g] \in {Idle} \union SaveRecord
        BY <1>1, DisturbedForm DEF IInv
      <3>2. thread' = [g \in Web |-> thread'[g]]
        BY DEF DeleteFilter, Disturbed
      <3> QED
        BY <3>1, <3>2
    <2>2. wish' \in [Filter -> SUBSET (Row \union {None})] /\ blurred' \subseteq Filter
          /\ filter' \in [Filter -> Row \union {None}]
      BY DEF DeleteFilter, IInv, FormTypeOK
    <2> QED
      BY <1>1, <2>1, <2>2 DEF IInv, FormTypeOK
  <1>3. \A g \in Web, k \in Filter : Saving(g, k)' <=> Saving(g, k)
    BY <1>1, DisturbedForm DEF Saving, IInv
  <1>4. FormsOK'
    <2> SUFFICES ASSUME NEW g \in Web, NEW k \in Filter, NEW asked \in Row,
                        Saving(g, k)', thread'[g].row = asked
                 PROVE  FormOK(g, k, asked)'
      BY DEF FormsOK
    <2>1. /\ Saving(g, k) /\ thread[g].row = asked
          /\ thread'[g].at = thread[g].at
          /\ thread'[g].alone => thread[g].alone /\ k # f
      BY <1>1, <1>3, DisturbedForm DEF IInv, Saving
    <2>2. FormOK(g, k, asked)
      BY <2>1 DEF IInv, FormsOK
    <2>3. CASE k = f
      BY <1>1, <2>1, <2>3 DEF FormOK
    <2>4. CASE k # f
      <3>1. filter'[k] = filter[k] /\ wish'[k] = wish[k]
        BY <1>1, <2>4
      <3> QED
        BY <1>1, <1>3, <2>1, <2>2, <3>1 DEF FormOK, At
    <2> QED
      BY <2>3, <2>4
  <1>5. ASSUME NEW k \in Filter PROVE Covered(k)' /\ Clean(k)'
    <2>1. CASE k = f
      BY <1>1, <2>1 DEF Covered, Clean
    <2>2. CASE k # f
      BY <1>1, <1>3, <2>2 DEF Covered, Clean, IInv
    <2> QED
      BY <2>1, <2>2
  <1> QED
    BY <1>2, <1>4, <1>5 DEF IInv

(* What an administrator deleted leaves every filter that named it. *)
LEMMA ServiceLeaves ==
  ASSUME IInv, NEW v \in Service, DeleteService(v), NEW f \in Filter
  PROVE  /\ filter[f] = None => filter'[f] = None
         /\ filter[f] # None => /\ filter'[f] \in Row /\ SameRow(filter'[f], filter[f])
                                /\ filter'[f].services = filter[f].services \ {v}
                                /\ filter'[f].operations = filter[f].operations
         /\ f \notin blurred' => filter'[f] = filter[f] /\ f \notin blurred
  <1>1. CASE f \in Naming({v}, "services")
    <2>1. filter[f] # None /\ filter[f] \in Row /\ f \in blurred'
      BY <1>1 DEF Naming, DeleteService, Delete, IInv, FormTypeOK
    <2>2. filter'[f] = [filter[f] EXCEPT !.services = @ \ {v}]
      BY <1>1 DEF DeleteService, Delete
    <2>3. filter[f].services \ {v} \in SUBSET Service /\ filter[f].operations \in SUBSET Operation
      BY <2>1 DEF Row
    <2>4. filter'[f] = WithLists(filter[f], filter[f].services \ {v}, filter[f].operations)
      BY <2>1, <2>2, <2>3, OneList
    <2> QED
      BY <2>1, <2>3, <2>4, RowChanges
  <1>2. CASE f \notin Naming({v}, "services")
    <2>1. filter'[f] = filter[f] /\ (f \notin blurred' => f \notin blurred)
      BY <1>2 DEF DeleteService, Delete
    <2>2. filter[f] # None => filter[f] \in Row /\ filter[f].services \intersect {v} = {}
      BY <1>2 DEF Naming, IInv, FormTypeOK
    <2>3. filter[f] # None => filter[f].services \ {v} = filter[f].services
      BY <2>2
    <2> QED
      BY <2>1, <2>2, <2>3 DEF SameRow, SameOwner
  <1> QED
    BY <1>1, <1>2

LEMMA OperationLeaves ==
  ASSUME IInv, NEW p \in Operation, DeleteOperation(p), NEW f \in Filter
  PROVE  /\ filter[f] = None => filter'[f] = None
         /\ filter[f] # None => /\ filter'[f] \in Row /\ SameRow(filter'[f], filter[f])
                                /\ filter'[f].services = filter[f].services
                                /\ filter'[f].operations = filter[f].operations \ {p}
         /\ f \notin blurred' => filter'[f] = filter[f] /\ f \notin blurred
  <1>1. CASE f \in Naming({p}, "operations")
    <2>1. filter[f] # None /\ filter[f] \in Row /\ f \in blurred'
      BY <1>1 DEF Naming, DeleteOperation, Delete, IInv, FormTypeOK
    <2>2. filter'[f] = [filter[f] EXCEPT !.operations = @ \ {p}]
      BY <1>1 DEF DeleteOperation, Delete
    <2>3. filter[f].services \in SUBSET Service /\ filter[f].operations \ {p} \in SUBSET Operation
      BY <2>1 DEF Row
    <2>4. filter'[f] = WithLists(filter[f], filter[f].services, filter[f].operations \ {p})
      BY <2>1, <2>2, <2>3, OneList
    <2> QED
      BY <2>1, <2>3, <2>4, RowChanges
  <1>2. CASE f \notin Naming({p}, "operations")
    <2>1. filter'[f] = filter[f] /\ (f \notin blurred' => f \notin blurred)
      BY <1>2 DEF DeleteOperation, Delete
    <2>2. filter[f] # None => filter[f] \in Row /\ filter[f].operations \intersect {p} = {}
      BY <1>2 DEF Naming, IInv, FormTypeOK
    <2>3. filter[f] # None => filter[f].operations \ {p} = filter[f].operations
      BY <2>2
    <2> QED
      BY <2>1, <2>2, <2>3 DEF SameRow, SameOwner
  <1> QED
    BY <1>1, <1>2

(* The filters that a deletion leaves are as good as they were, for what still exists. *)
LEMMA DeletionKeeps ==
  ASSUME IInv, NEW gone, NEW done,
         Other \notin gone, Other \notin done, service' = service \ gone, operation' = operation \ done,
         UNCHANGED <<posted, thread, wish>>,
         filter' \in [Filter -> Row \union {None}], blurred' \subseteq Filter,
         \A f \in Filter :
            /\ filter[f] = None => filter'[f] = None
            /\ filter[f] # None => /\ filter'[f] # None /\ SameRow(filter'[f], filter[f])
                                   /\ filter'[f].services = filter[f].services \ gone
                                   /\ filter'[f].operations = filter[f].operations \ done
            /\ f \notin blurred' => filter'[f] = filter[f] /\ f \notin blurred
  PROVE  IInv'
  <1>1. FormTypeOK'
    BY DEF IInv, FormTypeOK
  <1>2. \A g \in Web, k \in Filter : Saving(g, k)' <=> Saving(g, k)
    BY DEF Saving
  <1>3. FormsOK'
    <2> SUFFICES ASSUME NEW g \in Web, NEW k \in Filter, NEW asked \in Row,
                        Saving(g, k)', thread'[g].row = asked
                 PROVE  FormOK(g, k, asked)'
      BY DEF FormsOK
    <2>1. FormOK(g, k, asked)
      BY <1>2 DEF IInv, FormsOK
    <2>2. filter'[k] # None => asked \in wish'[k] /\ SameOwner(asked, filter'[k])
      BY <2>1, SameIsEquivalence DEF FormOK
    <2>3. thread'[g].alone => /\ filter'[k] # None /\ SameRow(asked, filter'[k])
                              /\ \A q \in Web : Saving(q, k)' => q = g
      BY <1>2, <2>1, SameIsEquivalence DEF FormOK
    <2>4. ASSUME thread'[g].alone, At(g, "operations")'
          PROVE  /\ Admits(asked.services, filter'[k].services, service')
                 /\ asked.services \subseteq service' => filter'[k].services = asked.services
      <3>1. /\ filter[k] # None /\ Admits(asked.services, filter[k].services, service)
            /\ asked.services \subseteq service => filter[k].services = asked.services
        BY <2>1, <2>4 DEF FormOK, At
      <3>2. filter'[k].services = filter[k].services \ gone
        BY <3>1
      <3>3. Admits(asked.services, filter'[k].services, service')
        BY <3>1, <3>2, AdmitsLess
      <3>4. ASSUME asked.services \subseteq service'
            PROVE  filter'[k].services = asked.services
        <4>1. asked.services \subseteq service /\ asked.services \ gone = asked.services
          BY <3>4
        <4> QED
          BY <3>1, <3>2, <4>1
      <3> QED
        BY <3>3, <3>4
    <2> QED
      BY <2>2, <2>3, <2>4 DEF FormOK
  <1>4. ASSUME NEW k \in Filter PROVE Covered(k)'
    <2>1. CASE filter[k] = None
      BY <2>1 DEF IInv, Covered
    <2>2. CASE filter[k] # None
      <3>1. PICK w \in wish[k] : w # None /\ SameRow(w, filter[k])
        BY <2>2 DEF IInv, Covered
      <3>2. PICK x \in wish[k] : /\ x # None /\ SameOwner(x, filter[k])
                                 /\ Admits(x.services, filter[k].services, service)
        BY <2>2 DEF IInv, Covered
      <3>3. PICK y \in wish[k] : /\ y # None /\ SameOwner(y, filter[k])
                                 /\ Admits(y.operations, filter[k].operations, operation)
        BY <2>2 DEF IInv, Covered
      <3>4. /\ filter'[k] # None /\ SameRow(filter[k], filter'[k]) /\ SameOwner(filter[k], filter'[k])
            /\ filter'[k].services = filter[k].services \ gone
            /\ filter'[k].operations = filter[k].operations \ done
        BY <2>2, SameIsEquivalence
      <3>5. w \in wish'[k] /\ SameRow(w, filter'[k])
        BY <3>1, <3>4, SameIsEquivalence
      <3>6. x \in wish'[k] /\ SameOwner(x, filter'[k]) /\ Admits(x.services, filter'[k].services, service')
        BY <3>2, <3>4, SameIsEquivalence, AdmitsLess
      <3>7. y \in wish'[k] /\ SameOwner(y, filter'[k]) /\ Admits(y.operations, filter'[k].operations, operation')
        BY <3>3, <3>4, SameIsEquivalence, AdmitsLess
      <3> QED
        BY <3>1, <3>2, <3>3, <3>4, <3>5, <3>6, <3>7 DEF Covered
    <2> QED
      BY <2>1, <2>2
  <1>5. ASSUME NEW k \in Filter PROVE Clean(k)'
    BY <1>2 DEF IInv, Clean
  <1> QED
    BY <1>1, <1>3, <1>4, <1>5 DEF IInv

LEMMA DeleteServiceKeeps == ASSUME IInv, NEW v \in Service, DeleteService(v) PROVE IInv'
  <1>1. filter' \in [Filter -> Row \union {None}]
    <2>1. \A f \in Filter : filter'[f] \in Row \union {None}
      BY ServiceLeaves
    <2>2. filter' = [f \in Filter |-> filter'[f]]
      BY DEF DeleteService, Delete
    <2> QED
      BY <2>1, <2>2
  <1>2. ASSUME NEW f \in Filter
        PROVE  /\ filter[f] = None => filter'[f] = None
               /\ filter[f] # None => /\ filter'[f] # None /\ SameRow(filter'[f], filter[f])
                                      /\ filter'[f].services = filter[f].services \ {v}
                                      /\ filter'[f].operations = filter[f].operations \ {}
               /\ f \notin blurred' => filter'[f] = filter[f] /\ f \notin blurred
    <2>1. \A items : items \ {} = items
      OBVIOUS
    <2> QED
      BY <2>1, ServiceLeaves, NoneIsNoRow
  <1>3. /\ service' = service \ {v} /\ operation' = operation \ {} /\ Other \notin {v} /\ Other \notin {}
        /\ UNCHANGED <<posted, thread, wish>> /\ blurred' \subseteq Filter
    BY Distinct DEF DeleteService, Delete, Naming, IInv, FormTypeOK
  <1> QED
    BY <1>1, <1>2, <1>3, DeletionKeeps

LEMMA DeleteOperationKeeps == ASSUME IInv, NEW p \in Operation, DeleteOperation(p) PROVE IInv'
  <1>1. filter' \in [Filter -> Row \union {None}]
    <2>1. \A f \in Filter : filter'[f] \in Row \union {None}
      BY OperationLeaves
    <2>2. filter' = [f \in Filter |-> filter'[f]]
      BY DEF DeleteOperation, Delete
    <2> QED
      BY <2>1, <2>2
  <1>2. ASSUME NEW f \in Filter
        PROVE  /\ filter[f] = None => filter'[f] = None
               /\ filter[f] # None => /\ filter'[f] # None /\ SameRow(filter'[f], filter[f])
                                      /\ filter'[f].services = filter[f].services \ {}
                                      /\ filter'[f].operations = filter[f].operations \ {p}
               /\ f \notin blurred' => filter'[f] = filter[f] /\ f \notin blurred
    <2>1. \A items : items \ {} = items
      OBVIOUS
    <2> QED
      BY <2>1, OperationLeaves, NoneIsNoRow
  <1>3. /\ service' = service \ {} /\ operation' = operation \ {p} /\ Other \notin {p} /\ Other \notin {}
        /\ UNCHANGED <<posted, thread, wish>> /\ blurred' \subseteq Filter
    BY Distinct DEF DeleteOperation, Delete, Naming, IInv, FormTypeOK
  <1> QED
    BY <1>1, <1>2, <1>3, DeletionKeeps

-----------------------------------------------------------------------------
(* What a mail holds. *)

Reading == {"operations", "all operations", "services", "all services"}
MailRecord == [at : {"count", "list", "emptied", "filters", "skipped", "sent"} \union Reading,
               user : User, event : Event, left : [Filter -> Row \union {None}],
               on : Filter \union {None}, torn : BOOLEAN]
Says == {"no filter", "yes", "no"}

(* A mail and what is remembered during it have values of their types. *)
MailTypeOK ==
    /\ mail \in {Idle} \union MailRecord
    /\ meant \in [Filter -> SUBSET Says]
    /\ hazy \subseteq Filter

TypeOK == FormTypeOK /\ MailTypeOK

Shaky(f) == f \in blurred \/ \E h \in Web : Saving(h, f)

(* What is remembered keeps up with the forms. *)
Followed ==
    mail.at # "idle" => \A f \in Filter :
        /\ \A w \in wish[f] : Verdict(w, mail.user, mail.event) \in meant[f]
        /\ Listed(f) /\ Shaky(f) => f \in hazy

(* A listed row comes from a wish, and is the filter's as long as no form touches it. *)
HeldOK(f) ==
    Listed(f) =>
        /\ mail.left[f].owner = mail.user /\ mail.left[f].kind = mail.event.kind
        /\ ~Selected(mail.left[f].states, mail.event.state)
              \/ ~WhenRender(mail.left[f].when, mail.event.spec) => "no" \in meant[f]
        /\ filter[f] # None => SameOwner(filter[f], mail.left[f])
        /\ filter[f] # None /\ f \notin hazy => SameRow(filter[f], mail.left[f])

(* A mail may be lost for one of the two named reasons. *)
Excused == mail.torn \/ ~StillThere(mail.event)

(* A filter that is not held any more was meant, at some moment, not to match or not to be. *)
DroppedOK ==
    mail.at \in {"filters", "skipped"} \union Reading =>
        \/ Excused
        \/ /\ \A f \in Filter : Listed(f) \/ "no" \in meant[f] \/ "no filter" \in meant[f]
           /\ \E f \in Filter : Listed(f) \/ "no" \in meant[f]

(* What the queries so far have found out about the filter that is tried. *)
TriedOK ==
    /\ mail.at \in {"count", "list"} => mail.on = None
    /\ mail.at \in Reading => /\ mail.on \in Filter /\ Listed(mail.on)
                              /\ Selected(mail.left[mail.on].states, mail.event.state)
    /\ mail.at \in {"operations", "all operations"} => mail.event.kind = "request"
    /\ mail.at \in {"services", "all services"} /\ mail.event.kind = "request" =>
          \/ mail.on \in hazy \/ filter[mail.on] = None
          \/ Selected(filter[mail.on].operations, mail.event.operation)

(* What the end of a mail says of the filters. *)
OverOK ==
    /\ mail.at = "skipped" => \A f \in Filter : ~Listed(f)
    /\ mail.at = "sent" /\ mail.on = None => \A f \in Filter : "no filter" \in meant[f]
    /\ mail.at = "sent" /\ mail.on # None =>
          /\ mail.on \in Filter /\ Listed(mail.on)
          /\ "yes" \in meant[mail.on] \/ mail.on \in hazy \/ filter[mail.on] = None

MInv ==
    /\ MailTypeOK /\ Followed
    /\ mail.at # "idle" => (\A f \in Filter : HeldOK(f)) /\ DroppedOK /\ TriedOK /\ OverOK

-----------------------------------------------------------------------------
(* What is remembered only grows. *)

LEMMA VerdictSays == \A w, u, e : Verdict(w, u, e) \in Says
  BY DEF Verdict, Says

LEMMA RememberKeeps ==
  ASSUME MInv, Remember, mail' \in {Idle} \union MailRecord
  PROVE  MailTypeOK'
  <1>1. \A f \in Filter : {Verdict(w, mail'.user, mail'.event) : w \in wish'[f]} \subseteq Says
    BY VerdictSays
  <1>2. meant' \in [Filter -> SUBSET Says]
    BY <1>1 DEF Remember, MInv, MailTypeOK
  <1>3. hazy' \subseteq Filter
    BY DEF Remember
  <1> QED
    BY <1>2, <1>3 DEF MailTypeOK

LEMMA RememberFollows ==
  ASSUME Remember, mail'.at # "idle"
  PROVE  Followed' /\ \A f \in Filter : meant[f] \subseteq meant'[f]
  BY DEF Remember, Followed, Shaky

LEMMA HazyGrows ==
  ASSUME Remember, NEW f \in Filter, Listed(f)', f \in hazy
  PROVE  f \in hazy'
  BY DEF Remember

LEMMA IdleKeeps ==
  ASSUME MInv, Remember, mail'.at = "idle", mail' \in {Idle} \union MailRecord
  PROVE  MInv'
  BY RememberKeeps DEF MInv, Followed

(* What the others do to a filter while a mail waits: it may go, or be changed by a form. *)
Disturbance ==
    /\ service' \subseteq service /\ operation' \subseteq operation
    /\ \A f \in Filter :
          /\ filter[f] = None => filter'[f] = None \/ ~Listed(f)
          /\ filter[f] # None => filter'[f] = None \/ SameOwner(filter'[f], filter[f])
          /\ filter'[f] = filter[f] \/ filter'[f] = None \/ Shaky(f) \/ Shaky(f)'

LEMMA OthersKeep ==
  ASSUME IInv, MInv, MailWaits, Disturbance
  PROVE  MInv'
  <1>1. mail' = mail /\ Remember /\ \A f \in Filter : Listed(f)' <=> Listed(f)
    BY DEF MailWaits, Listed
  <1>2. MailTypeOK'
    BY <1>1, RememberKeeps DEF MInv, MailTypeOK
  <1>3. CASE mail.at = "idle"
    BY <1>1, <1>3, IdleKeeps DEF MInv, MailTypeOK
  <1>4. CASE mail.at # "idle"
    <2>1. Followed' /\ \A f \in Filter : meant[f] \subseteq meant'[f]
      BY <1>1, <1>4, RememberFollows
    <2>2. \A f \in Filter : Listed(f) /\ (f \in hazy \/ Shaky(f)) => f \in hazy'
      BY <1>1, <1>4, HazyGrows DEF MInv, Followed
    <2>3. \A f \in Filter : Listed(f) /\ Shaky(f)' => f \in hazy'
      BY <1>1, <1>4, <2>1 DEF Followed
    <2>4. ASSUME NEW f \in Filter, Listed(f)
          PROVE  /\ filter[f] = None => filter'[f] = None
                 /\ filter'[f] = filter[f] \/ filter'[f] = None \/ f \in hazy'
                 /\ filter'[f] # None => SameOwner(filter'[f], filter[f])
      BY <2>2, <2>3, <2>4 DEF Disturbance
    <2>5. ASSUME NEW f \in Filter PROVE HeldOK(f)'
      <3> SUFFICES ASSUME Listed(f) PROVE HeldOK(f)'
        BY <1>1 DEF HeldOK
      <3>1. HeldOK(f)
        BY <1>4 DEF MInv
      <3>2. filter'[f] # None => SameOwner(filter'[f], mail.left[f])
        BY <2>4, <3>1, SameIsEquivalence DEF HeldOK
      <3>3. filter'[f] # None /\ f \notin hazy' => SameRow(filter'[f], mail.left[f])
        BY <2>2, <2>4, <3>1 DEF HeldOK
      <3> QED
        BY <1>1, <2>1, <3>1, <3>2, <3>3 DEF HeldOK
    <2>6. Excused => Excused'
      BY <1>1 DEF Excused, StillThere, Disturbance
    <2>7. DroppedOK'
      BY <1>1, <1>4, <2>1, <2>6 DEF MInv, DroppedOK
    <2>8. TriedOK'
      BY <1>1, <1>4, <2>2, <2>4 DEF MInv, TriedOK, Reading
    <2>9. OverOK'
      BY <1>1, <1>4, <2>1, <2>2, <2>4 DEF MInv, OverOK
    <2> QED
      BY <1>2, <2>1, <2>5, <2>7, <2>8, <2>9 DEF MInv
  <1> QED
    BY <1>3, <1>4

(* The forms and deletions are such disturbances. *)

LEMMA EditedIsShaky ==
  ASSUME NEW h \in Web, NEW f \in Filter,
         \/ thread[h].at \in {"services", "operations"} /\ thread[h].filter = f
         \/ thread'[h].at \in {"services", "operations"} /\ thread'[h].filter = f
  PROVE  Shaky(f) \/ Shaky(f)'
  BY DEF Shaky, Saving

LEMMA PostDisturbs ==
  ASSUME IInv, NEW h \in Web, NEW f \in Filter, NEW row \in Row,
         Create(h, f, row) \/ Edit(h, f, row)
  PROVE  MailWaits /\ Disturbance
  <1>1. PICK s \in SUBSET Service, o \in SUBSET Operation : Post(h, f, row, s, o)
    <2>1. CASE Create(h, f, row)
      BY <2>1 DEF Create
    <2>2. CASE Edit(h, f, row)
      BY <2>2 DEF Edit, IInv, FormTypeOK, Row
    <2> QED
      BY <2>1, <2>2
  <1> DEFINE new == WithLists(row, s, o)
  <1>2. new \in Row /\ SameRow(new, row)
    BY RowChanges
  <1>3. filter' = [filter EXCEPT ![f] = new] /\ MailWaits /\ UNCHANGED <<service, operation>>
    BY <1>1 DEF Post, WithLists
  <1>4. thread'[h].at = "services" /\ thread'[h].filter = f
    BY <1>1 DEF Post, Disturbed
  <1>5. Shaky(f)'
    BY <1>4 DEF Shaky, Saving
  <1> HIDE DEF new
  <1>6. filter'[f] = new /\ \A k \in Filter : k # f => filter'[k] = filter[k]
    BY <1>3 DEF IInv, FormTypeOK
  <1>7. filter[f] = None => ~Listed(f)
    BY DEF Create, Edit
  <1>8. filter[f] # None => SameOwner(new, filter[f])
    BY <1>2, SameIsEquivalence DEF Create, Edit, SameOwner, SameRow
  <1>9. \A k \in Filter : SameOwner(filter[k], filter[k])
    BY DEF SameOwner
  <1> QED
    BY <1>3, <1>5, <1>6, <1>7, <1>8, <1>9 DEF Disturbance

LEMMA SaveDisturbs ==
  ASSUME IInv, NEW h \in Web, SaveServices(h) \/ SaveOperations(h) \/ Crash(h)
  PROVE  MailWaits /\ Disturbance
  <1>1. \A k \in Filter : SameOwner(filter[k], filter[k])
    BY DEF SameOwner
  <1>2. CASE CutOff(h)
    BY <1>1, <1>2 DEF CutOff, Disturbance
  <1>3. CASE ~CutOff(h)
    <2>1. thread[h].at \in {"services", "operations"}
      BY <1>3 DEF SaveServices, SaveOperations, Crash, At
    <2>2. PICK f \in Filter : thread[h].filter = f
      BY <2>1, FormRecord DEF IInv
    <2>3. Shaky(f)
      BY <2>1, <2>2 DEF Shaky, Saving
    <2>4. /\ MailWaits /\ UNCHANGED <<service, operation>>
          /\ \/ filter' = filter
             \/ filter[f] # None /\ filter' = [filter EXCEPT ![f].services = thread[h].row.services]
             \/ filter[f] # None /\ filter' = [filter EXCEPT ![f].operations = thread[h].row.operations]
      <3>1. CASE SaveServices(h)
        BY <1>3, <2>2, <3>1 DEF SaveServices
      <3>2. CASE SaveOperations(h)
        BY <1>3, <2>2, <3>2 DEF SaveOperations
      <3> QED
        BY <1>3, <3>1, <3>2 DEF Crash
    <2>5. filter[f] # None => filter[f] \in Row
      BY DEF IInv, FormTypeOK
    <2>6. filter[f] # None => SameOwner(filter'[f], filter[f])
      BY <2>4, <2>5 DEF SameOwner, IInv, FormTypeOK, Row
    <2>7. \A k \in Filter : k # f => filter'[k] = filter[k]
      BY <2>4 DEF IInv, FormTypeOK
    <2>8. filter[f] = None => filter'[f] = None
      BY <2>4
    <2> QED
      BY <1>1, <2>3, <2>4, <2>6, <2>7, <2>8 DEF Disturbance
  <1> QED
    BY <1>2, <1>3

LEMMA DeletionDisturbs ==
  ASSUME IInv,
         \/ \E f \in Filter : DeleteFilter(f)
         \/ \E v \in Service : DeleteService(v)
         \/ \E p \in Operation : DeleteOperation(p)
  PROVE  MailWaits /\ Disturbance
  <1>1. \A k \in Filter : SameOwner(filter[k], filter[k])
    BY DEF SameOwner
  <1>2. ASSUME NEW f \in Filter, DeleteFilter(f) PROVE MailWaits /\ Disturbance
    <2>1. \A k \in Filter : filter'[k] = None \/ filter'[k] = filter[k]
      BY <1>2 DEF DeleteFilter, IInv, FormTypeOK
    <2> QED
      BY <1>1, <1>2, <2>1 DEF DeleteFilter, Disturbance
  <1>3. ASSUME NEW v \in Service, DeleteService(v) PROVE MailWaits /\ Disturbance
    <2>1. service' \subseteq service /\ operation' \subseteq operation /\ MailWaits
      BY <1>3 DEF DeleteService
    <2>2. \A f \in Filter : f \in blurred' => Shaky(f)'
      BY DEF Shaky
    <2> QED
      BY <1>3, <2>1, <2>2, ServiceLeaves DEF Disturbance, SameRow
  <1>4. ASSUME NEW p \in Operation, DeleteOperation(p) PROVE MailWaits /\ Disturbance
    <2>1. service' \subseteq service /\ operation' \subseteq operation /\ MailWaits
      BY <1>4 DEF DeleteOperation
    <2>2. \A f \in Filter : f \in blurred' => Shaky(f)'
      BY DEF Shaky
    <2> QED
      BY <1>4, <2>1, <2>2, OperationLeaves DEF Disturbance, SameRow
  <1> QED
    BY <1>2, <1>3, <1>4

-----------------------------------------------------------------------------
(* From filters to wishes. *)

(* A filter that says no to an event was meant to: each criterion comes from a wish. *)
LEMMA NoIsMeant ==
  ASSUME IInv, MailTypeOK, Followed, mail.at # "idle", StillThere(mail.event),
         NEW f \in Filter, filter[f] # None,
         filter[f].owner = mail.user, filter[f].kind = mail.event.kind,
         ~Selects(filter[f], mail.event)
  PROVE  "no" \in meant[f]
  <1> DEFINE e == mail.event
  <1>1. PICK w \in wish[f] : w # None /\ SameRow(w, filter[f])
    BY DEF IInv, Covered
  <1>2. PICK x \in wish[f] : /\ x # None /\ SameOwner(x, filter[f])
                             /\ Admits(x.services, filter[f].services, service)
    BY DEF IInv, Covered
  <1>3. PICK y \in wish[f] : /\ y # None /\ SameOwner(y, filter[f])
                             /\ Admits(y.operations, filter[f].operations, operation)
    BY DEF IInv, Covered
  <1>4. e.service \in service \union {Other} /\ e.operation \in operation \union {Other}
    BY DEF StillThere
  <1>5. \E v \in wish[f] : v # None /\ SameOwner(v, filter[f]) /\ ~Selects(v, e)
    <2>1. CASE ~Selected(filter[f].states, e.state) \/ ~WhenRender(filter[f].when, e.spec)
      BY <1>1, <2>1 DEF SameRow, Selects
    <2>2. CASE ~Selected(filter[f].services, e.service)
      BY <1>2, <1>4, <2>2 DEF Admits, Selects
    <2>3. CASE e.kind = "request" /\ ~Selected(filter[f].operations, e.operation)
      BY <1>3, <1>4, <2>3 DEF Admits, Selects
    <2> QED
      BY <2>1, <2>2, <2>3 DEF Selects
  <1>6. PICK v \in wish[f] : v # None /\ SameOwner(v, filter[f]) /\ ~Selects(v, e)
    BY <1>5
  <1>7. Verdict(v, mail.user, e) = "no"
    BY <1>6 DEF Verdict, SameOwner
  <1> QED
    BY <1>6, <1>7 DEF Followed

(* A filter that is not the user's was not meant to be. *)
LEMMA NoFilterIsMeant ==
  ASSUME IInv, MailTypeOK, Followed, mail.at # "idle",
         NEW f \in Filter, f \notin Of(filter, mail.user, mail.event.kind)
  PROVE  "no filter" \in meant[f]
  <1>1. \E w \in wish[f] : Verdict(w, mail.user, mail.event) = "no filter"
    <2>1. CASE filter[f] = None
      BY <2>1 DEF IInv, Covered, Verdict
    <2>2. CASE filter[f] # None
      <3>1. PICK w \in wish[f] : w # None /\ SameRow(w, filter[f])
        BY <2>2 DEF IInv, Covered
      <3> QED
        BY <2>2, <3>1 DEF SameRow, SameOwner, Of, Verdict
    <2> QED
      BY <2>1, <2>2
  <1> QED
    BY <1>1 DEF Followed

(* A filter nothing disturbed that says yes was meant to. *)
LEMMA YesIsMeant ==
  ASSUME IInv, MailTypeOK, Followed, mail.at # "idle",
         NEW f \in Filter, filter[f] # None, Listed(f), f \notin hazy,
         filter[f].owner = mail.user, filter[f].kind = mail.event.kind,
         Selects(filter[f], mail.event)
  PROVE  "yes" \in meant[f]
  <1>1. filter[f] \in wish[f]
    BY DEF Followed, Shaky, IInv, Clean
  <1>2. Verdict(filter[f], mail.user, mail.event) = "yes"
    BY DEF Verdict
  <1> QED
    BY <1>1, <1>2 DEF Followed

-----------------------------------------------------------------------------
(* The queries of a mail. *)

LEMMA NotIdle == MailTypeOK /\ mail.at # "idle" => mail \in MailRecord
  BY DEF MailTypeOK, Idle

(* What a query changes of a mail, and what it leaves alone. *)
LEMMA QueryKeepsRest ==
  ASSUME IInv, MInv, MailGoesOn, mail.at # "idle", mail' \in MailRecord,
         mail'.user = mail.user, mail'.event = mail.event
  PROVE  /\ MailTypeOK' /\ Followed'
         /\ \A f \in Filter : meant'[f] = meant[f]
         /\ \A f \in Filter : Listed(f)' /\ Listed(f) => (f \in hazy' <=> f \in hazy)
         /\ filter' = filter /\ StillThere(mail.event)' = StillThere(mail.event)
  <1>1. MailTypeOK' /\ Followed' /\ mail'.at # "idle"
    <2>1. mail'.at # "idle"
      BY DEF MailRecord, Reading
    <2> QED
      BY <2>1, RememberKeeps, RememberFollows DEF MailGoesOn
  <1>2. UNCHANGED <<filter, service, operation, wish, blurred, thread>> /\ Remember
    BY DEF MailGoesOn, settings
  <1>3. ASSUME NEW f \in Filter PROVE meant'[f] = meant[f]
    <2>1. {Verdict(w, mail.user, mail.event) : w \in wish[f]} \subseteq meant[f]
      BY DEF MInv, Followed
    <2>2. meant'[f] = meant[f] \union {Verdict(w, mail.user, mail.event) : w \in wish[f]}
      BY <1>1, <1>2 DEF Remember
    <2> QED
      BY <2>1, <2>2
  <1>4. ASSUME NEW f \in Filter, Listed(f)', Listed(f)
        PROVE  f \in hazy' <=> f \in hazy
    <2>1. Shaky(f)' <=> Shaky(f)
      BY <1>2 DEF Shaky, Saving
    <2>2. f \in hazy' <=> f \in hazy \/ Shaky(f)'
      BY <1>2, <1>4 DEF Remember, Shaky
    <2>3. Shaky(f) => f \in hazy
      BY <1>4 DEF MInv, Followed
    <2> QED
      BY <2>1, <2>2, <2>3
  <1> QED
    BY <1>1, <1>2, <1>3, <1>4 DEF StillThere

(* The rows that stay listed stay what they were. *)
LEMMA HeldStays ==
  ASSUME IInv, MInv, MailGoesOn, mail.at # "idle", mail' \in MailRecord,
         mail'.user = mail.user, mail'.event = mail.event,
         \A f \in Filter : Listed(f)' => Listed(f) /\ mail'.left[f] = mail.left[f]
  PROVE  \A f \in Filter : HeldOK(f)'
  <1> SUFFICES ASSUME NEW f \in Filter, Listed(f)' PROVE HeldOK(f)'
    BY DEF HeldOK
  <1>1. HeldOK(f) /\ Listed(f) /\ mail'.left[f] = mail.left[f]
    BY DEF MInv
  <1>2. filter' = filter /\ meant'[f] = meant[f] /\ (f \in hazy' <=> f \in hazy)
    BY <1>1, QueryKeepsRest
  <1> QED
    BY <1>1, <1>2 DEF HeldOK

(* The filter that is tried stays listed, and only the next question changes. *)
LEMMA TriedNext ==
  ASSUME IInv, MInv, MailGoesOn, mail.at \in {"filters"} \union Reading, NEW point,
         NEW f \in Filter, Listed(f), mail' = [mail EXCEPT !.at = point, !.on = f],
         point \in Reading \union {"sent"},
         Selected(mail.left[f].states, mail.event.state),
         point \in {"operations", "all operations"} => mail.event.kind = "request",
         point \in {"services", "all services"} /\ mail.event.kind = "request" =>
            \/ f \in hazy \/ filter[f] = None
            \/ Selected(filter[f].operations, mail.event.operation),
         point = "sent" => "yes" \in meant[f] \/ f \in hazy \/ filter[f] = None
  PROVE  MInv'
  <1>1. mail.at # "idle" /\ mail \in MailRecord
    <2>1. mail.at # "idle"
      BY DEF Reading
    <2> QED
      BY <2>1, NotIdle DEF MInv
  <1>2. /\ mail' \in MailRecord /\ mail'.at = point /\ mail'.on = f /\ mail'.left = mail.left
        /\ mail'.user = mail.user /\ mail'.event = mail.event /\ mail'.torn = mail.torn
    <2>1. mail' = [at |-> point, user |-> mail.user, event |-> mail.event, left |-> mail.left,
                   on |-> f, torn |-> mail.torn]
      BY <1>1 DEF MailRecord
    <2>2. /\ point \in {"count", "list", "emptied", "filters", "skipped", "sent"} \union Reading
          /\ mail.user \in User /\ mail.event \in Event /\ mail.torn \in BOOLEAN
          /\ mail.left \in [Filter -> Row \union {None}]
      BY <1>1 DEF MailRecord
    <2> QED
      BY <2>1, <2>2 DEF MailRecord
  <1>3. mail'.at # "idle" /\ \A g \in Filter : Listed(g)' <=> Listed(g)
    BY <1>1, <1>2 DEF Listed, Reading
  <1>4. /\ MailTypeOK' /\ Followed'
        /\ \A g \in Filter : meant'[g] = meant[g]
        /\ \A g \in Filter : Listed(g) => (g \in hazy' <=> g \in hazy)
        /\ filter' = filter /\ StillThere(mail.event)' = StillThere(mail.event)
    BY <1>1, <1>2, <1>3, QueryKeepsRest
  <1>5. \A g \in Filter : HeldOK(g)'
    BY <1>1, <1>2, <1>3, HeldStays
  <1>6. DroppedOK'
    BY <1>1, <1>2, <1>3, <1>4 DEF MInv, DroppedOK, Excused, StillThere
  <1>7. TriedOK'
    BY <1>2, <1>3, <1>4 DEF TriedOK, Reading
  <1>8. OverOK'
    <2>1. f # None
      BY Distinct
    <2> QED
      BY <1>2, <1>3, <1>4, <2>1 DEF OverOK, Reading
  <1> QED
    BY <1>4, <1>5, <1>6, <1>7, <1>8 DEF MInv

(* A filter that did not match leaves the list, and for a reason. *)
LEMMA DroppedKeeps ==
  ASSUME IInv, MInv, MailGoesOn, mail.at \in {"filters"} \union Reading,
         NEW f \in Filter, Listed(f), NEW t \in BOOLEAN, mail' = Dropped(f, t),
         t \/ ~StillThere(mail.event) \/ "no" \in meant[f]
  PROVE  MInv'
  <1>1. mail.at # "idle" /\ mail \in MailRecord
    <2>1. mail.at # "idle"
      BY DEF Reading
    <2> QED
      BY <2>1, NotIdle DEF MInv
  <1> DEFINE last == \A g \in Filter \ {f} : mail.left[g] = None
             left == [mail.left EXCEPT ![f] = None]
             torn == mail.torn \/ t
  <1>2. /\ mail.user \in User /\ mail.event \in Event /\ mail.torn \in BOOLEAN
        /\ mail.left \in [Filter -> Row \union {None}]
    BY <1>1 DEF MailRecord
  <1>3. /\ left \in [Filter -> Row \union {None}] /\ left[f] = None
        /\ \A g \in Filter : g # f => left[g] = mail.left[g]
    BY <1>2
  <1>4. torn \in BOOLEAN
    OBVIOUS
  <1>5. mail' = [at |-> IF last THEN "skipped" ELSE "filters", user |-> mail.user,
                 event |-> mail.event, left |-> left, on |-> None, torn |-> torn]
    BY <1>1 DEF Dropped, MailRecord
  <1>6. last <=> \A g \in Filter : left[g] = None
    BY <1>3
  <1> HIDE DEF left, last
  <1>7. /\ mail' \in MailRecord /\ mail'.at \in {"skipped", "filters"} /\ mail'.on = None
        /\ mail'.user = mail.user /\ mail'.event = mail.event
        /\ mail'.left = left /\ (mail.torn \/ t => mail'.torn)
        /\ mail'.at = "skipped" <=> last
    <2>1. mail' \in MailRecord
      <3> HIDE DEF torn
      <3> QED
        BY <1>2, <1>3, <1>4, <1>5 DEF MailRecord
    <2>2. mail.torn \/ t => torn
      OBVIOUS
    <2> HIDE DEF torn
    <2>3. mail'.torn = torn
      BY <1>5
    <2>4. mail.torn \/ t => mail'.torn
      BY <2>2, <2>3, Zenon
    <2> QED
      BY <1>5, <2>1, <2>4
  <1>8. \A g \in Filter : /\ Listed(g)' => g # f /\ Listed(g) /\ mail'.left[g] = mail.left[g]
                          /\ Listed(g) => Listed(g)' \/ g = f
    BY <1>1, <1>3, <1>7 DEF Listed
  <1>9. /\ MailTypeOK' /\ Followed'
        /\ \A g \in Filter : meant'[g] = meant[g]
        /\ StillThere(mail.event)' = StillThere(mail.event)
    BY <1>1, <1>7, QueryKeepsRest
  <1>10. \A g \in Filter : HeldOK(g)'
    BY <1>1, <1>7, <1>8, HeldStays
  <1>11. DroppedOK'
    <2>1. CASE t \/ Excused
      BY <1>7, <1>9, <2>1 DEF DroppedOK, Excused, StillThere
    <2>2. CASE ~t /\ ~Excused
      <3>1. \A g \in Filter : Listed(g) \/ "no" \in meant[g] \/ "no filter" \in meant[g]
        BY <1>1, <2>2 DEF MInv, DroppedOK
      <3>2. "no" \in meant[f]
        BY <2>2 DEF Excused
      <3> QED
        BY <1>8, <1>9, <3>1, <3>2 DEF DroppedOK
    <2> QED
      BY <2>1, <2>2
  <1>12. TriedOK'
    BY <1>7 DEF TriedOK, Reading
  <1>13. OverOK'
    BY <1>6, <1>7 DEF OverOK, Listed
  <1>14. mail'.at # "idle"
    BY <1>7
  <1> QED
    BY <1>9, <1>10, <1>11, <1>12, <1>13 DEF MInv

LEMMA NotifyKeeps ==
  ASSUME IInv, MInv, NEW u \in User, NEW e \in Event, Notify(u, e) PROVE MInv'
  <1> DEFINE left == [f \in Filter |-> None]
  <1>1. left \in [Filter -> Row \union {None}] /\ \A f \in Filter : left[f] = None
    OBVIOUS
  <1>2. mail' = [at |-> "count", user |-> u, event |-> e, left |-> left, on |-> None, torn |-> FALSE]
    BY DEF Notify
  <1> HIDE DEF left
  <1>3. mail' \in MailRecord /\ mail'.at = "count" /\ mail'.left = left /\ mail'.on = None
    BY <1>1, <1>2 DEF MailRecord
  <1>4. MailTypeOK' /\ Followed'
    BY <1>3, RememberKeeps, RememberFollows DEF Notify, MailGoesOn
  <1>5. \A f \in Filter : ~Listed(f)'
    BY <1>1, <1>3 DEF Listed
  <1>6. (\A f \in Filter : HeldOK(f)') /\ DroppedOK' /\ TriedOK' /\ OverOK'
    BY <1>3, <1>5 DEF HeldOK, DroppedOK, TriedOK, OverOK, Reading
  <1> QED
    BY <1>4, <1>6 DEF MInv

LEMMA CountFiltersKeeps == ASSUME IInv, MInv, CountFilters PROVE MInv'
  <1>1. mail \in MailRecord /\ mail.at = "count"
    BY NotIdle DEF CountFilters, MInv
  <1> DEFINE none == Of(filter, mail.user, mail.event.kind) = {}
             point == IF none THEN "sent" ELSE "list"
  <1>2. mail' = [mail EXCEPT !.at = point] /\ MailGoesOn
    BY DEF CountFilters
  <1>3. point \in {"sent", "list"} /\ (point = "sent" => none)
    OBVIOUS
  <1> HIDE DEF point
  <1>4. /\ mail' \in MailRecord /\ mail'.at = point /\ mail'.left = mail.left /\ mail'.on = mail.on
        /\ mail'.user = mail.user /\ mail'.event = mail.event
    BY <1>1, <1>2, <1>3 DEF MailRecord
  <1>5. \A f \in Filter : Listed(f)' <=> Listed(f)
    BY <1>1, <1>3, <1>4 DEF Listed
  <1>6. /\ MailTypeOK' /\ Followed' /\ \A f \in Filter : meant'[f] = meant[f] /\ HeldOK(f)'
    BY <1>1, <1>2, <1>4, <1>5, QueryKeepsRest, HeldStays
  <1>7. mail.on = None
    BY <1>1 DEF MInv, TriedOK
  <1>8. DroppedOK' /\ TriedOK'
    BY <1>3, <1>4, <1>7 DEF DroppedOK, TriedOK, Reading
  <1>9. OverOK'
    <2>1. none => \A f \in Filter : "no filter" \in meant[f]
      BY <1>1, NoFilterIsMeant DEF MInv
    <2> QED
      BY <1>3, <1>4, <1>6, <1>7, <2>1 DEF OverOK
  <1> QED
    BY <1>6, <1>8, <1>9 DEF MInv

LEMMA ListFiltersKeeps == ASSUME IInv, MInv, ListFilters PROVE MInv'
  <1>1. mail \in MailRecord /\ mail.at = "list"
    BY NotIdle DEF ListFilters, MInv
  <1> DEFINE listed == Of(filter, mail.user, mail.event.kind)
             point == IF listed = {} THEN "emptied" ELSE "filters"
             left == [f \in Filter |-> IF f \in listed THEN Columns(filter[f]) ELSE None]
  <1>2. mail' = [mail EXCEPT !.at = point, !.left = left] /\ MailGoesOn
    BY DEF ListFilters
  <1>3. \A f \in Filter : f \in listed =>
           /\ filter[f] \in Row /\ filter[f] # None
           /\ filter[f].owner = mail.user /\ filter[f].kind = mail.event.kind
           /\ Columns(filter[f]) \in Row /\ SameRow(filter[f], Columns(filter[f]))
    <2>1. ASSUME NEW f \in Filter, f \in listed
          PROVE  /\ filter[f] \in Row /\ filter[f] # None
                 /\ filter[f].owner = mail.user /\ filter[f].kind = mail.event.kind
      BY <2>1 DEF Of, IInv, FormTypeOK
    <2>2. ASSUME NEW row \in Row PROVE Columns(row) \in Row /\ SameRow(row, Columns(row))
      <3>1. Columns(row) = WithLists(row, {}, {})
        BY DEF Columns, WithLists
      <3>2. {} \in SUBSET Service /\ {} \in SUBSET Operation
        OBVIOUS
      <3> QED
        BY <3>1, <3>2, RowChanges, SameIsEquivalence
    <2> QED
      BY <2>1, <2>2
  <1>4. left \in [Filter -> Row \union {None}]
    BY <1>3
  <1>5. \A f \in Filter : /\ left[f] # None <=> f \in listed
                          /\ f \in listed => left[f] = Columns(filter[f])
    BY <1>3, NoneIsNoRow
  <1>6. point \in {"emptied", "filters"} /\ (point = "filters" => listed # {})
    OBVIOUS
  <1> HIDE DEF point, left, listed
  <1>7. /\ mail' \in MailRecord /\ mail'.at = point /\ mail'.left = left
        /\ mail'.user = mail.user /\ mail'.event = mail.event
    <2>1. mail' = [at |-> point, user |-> mail.user, event |-> mail.event, left |-> left,
                   on |-> mail.on, torn |-> mail.torn]
      BY <1>1, <1>2 DEF MailRecord
    <2> QED
      BY <1>1, <1>4, <1>6, <2>1 DEF MailRecord
  <1>8. \A f \in Filter : Listed(f)' <=> f \in listed
    BY <1>5, <1>6, <1>7 DEF Listed
  <1>9. /\ MailTypeOK' /\ Followed' /\ \A f \in Filter : meant'[f] = meant[f]
        /\ filter' = filter
    BY <1>1, <1>2, <1>7, QueryKeepsRest
  <1>10. ASSUME NEW f \in Filter PROVE HeldOK(f)'
    <2> SUFFICES ASSUME f \in listed PROVE HeldOK(f)'
      BY <1>8 DEF HeldOK
    <2>1. /\ mail'.left[f].owner = mail'.user /\ mail'.left[f].kind = mail'.event.kind
          /\ SameRow(filter[f], mail'.left[f]) /\ SameOwner(filter[f], mail'.left[f])
      BY <1>3, <1>5, <1>7 DEF SameRow, SameOwner
    <2>2. PICK w \in wish[f] : w # None /\ SameRow(w, filter[f])
      BY <1>3 DEF IInv, Covered
    <2>3. SameRow(w, mail'.left[f])
      BY <2>1, <2>2, SameIsEquivalence
    <2>4. Verdict(w, mail.user, mail.event) \in meant[f]
      BY <1>1 DEF MInv, Followed
    <2>5. ~Selected(mail'.left[f].states, mail.event.state)
             \/ ~WhenRender(mail'.left[f].when, mail.event.spec) => "no" \in meant[f]
      BY <1>7, <2>1, <2>2, <2>3, <2>4 DEF Verdict, Selects, SameRow, SameOwner
    <2> QED
      BY <1>7, <1>9, <2>1, <2>5 DEF HeldOK
  <1>11. DroppedOK'
    <2> SUFFICES ASSUME point = "filters" PROVE DroppedOK'
      BY <1>6, <1>7 DEF DroppedOK, Reading
    <2>1. \A f \in Filter : f \in listed \/ "no filter" \in meant[f]
      BY <1>1, NoFilterIsMeant DEF MInv, listed
    <2>2. \E f \in Filter : f \in listed
      BY <1>6 DEF listed, Of
    <2> QED
      BY <1>8, <1>9, <2>1, <2>2 DEF DroppedOK
  <1>12. TriedOK' /\ OverOK'
    BY <1>6, <1>7 DEF TriedOK, OverOK, Reading
  <1> QED
    BY <1>9, <1>10, <1>11, <1>12 DEF MInv

LEMMA TryFilterKeeps == ASSUME IInv, MInv, NEW f \in Filter, TryFilter(f) PROVE MInv'
  <1> DEFINE point == IF mail.event.kind = "request" THEN "operations" ELSE "services"
  <1>1. mail.at = "filters" /\ Listed(f) /\ MailGoesOn /\ mail.at # "idle" /\ HeldOK(f)
    BY DEF TryFilter, MInv
  <1>2. CASE ColumnsMatch(mail.left[f], mail.event)
    <2>1. Selected(mail.left[f].states, mail.event.state)
      BY <1>2 DEF ColumnsMatch, Selected
    <2>2. mail' = [mail EXCEPT !.at = point, !.on = f]
      BY <1>1, <1>2 DEF TryFilter, MInv, MailTypeOK, Idle, MailRecord
    <2>3. /\ point \in Reading
          /\ point \in {"operations", "all operations"} => mail.event.kind = "request"
          /\ point \in {"services", "all services"} => mail.event.kind # "request"
          /\ point # "sent"
      BY DEF Reading
    <2> HIDE DEF point
    <2> QED
      BY <1>1, <2>1, <2>2, <2>3, TriedNext
  <1>3. CASE ~ColumnsMatch(mail.left[f], mail.event)
    <2>1. "no" \in meant[f]
      BY <1>1, <1>3 DEF HeldOK, ColumnsMatch, Selected
    <2>2. mail' = Dropped(f, FALSE)
      BY <1>3 DEF TryFilter
    <2> QED
      BY <1>1, <2>1, <2>2, DroppedKeeps
  <1> QED
    BY <1>2, <1>3

(* What is known of the filter that is tried. *)
LEMMA TriedFilter ==
  ASSUME IInv, MInv, mail.at \in Reading
  PROVE  /\ mail.at # "idle" /\ mail \in MailRecord /\ MailTypeOK /\ Followed
         /\ mail.on \in Filter /\ Listed(mail.on) /\ HeldOK(mail.on)
         /\ Selected(mail.left[mail.on].states, mail.event.state)
         /\ filter[mail.on] # None => /\ filter[mail.on].owner = mail.user
                                      /\ filter[mail.on].kind = mail.event.kind
  <1>1. mail.at # "idle"
    BY DEF Reading
  <1>2. mail.on \in Filter /\ Listed(mail.on) /\ Selected(mail.left[mail.on].states, mail.event.state)
        /\ \A f \in Filter : HeldOK(f)
    BY <1>1 DEF MInv, TriedOK
  <1> QED
    BY <1>1, <1>2, NotIdle DEF MInv, HeldOK, SameOwner

(* The next question about the filter that is tried. *)
LEMMA OnIsKept ==
  ASSUME mail \in MailRecord, NEW point
  PROVE  [mail EXCEPT !.at = point] = [mail EXCEPT !.at = point, !.on = mail.on]
  BY DEF MailRecord

LEMMA OperationsExistKeeps == ASSUME IInv, MInv, OperationsExist PROVE MInv'
  <1> DEFINE point == IF Named("operations") # {} THEN "all operations" ELSE "services"
             f == mail.on
  <1>1. mail.at \in Reading /\ MailGoesOn /\ mail.event.kind = "request"
    BY DEF OperationsExist, Reading, MInv, TriedOK
  <1>2. mail' = [mail EXCEPT !.at = point, !.on = f]
    BY <1>1, TriedFilter, OnIsKept DEF OperationsExist
  <1>3. point \in Reading /\ point # "sent"
    BY DEF Reading
  <1>4. point \in {"services", "all services"} =>
           filter[f] = None \/ Selected(filter[f].operations, mail.event.operation)
    BY DEF Named, Selected
  <1> HIDE DEF point
  <1> QED
    BY <1>1, <1>2, <1>3, <1>4, TriedFilter, TriedNext

LEMMA AllOperationsKeeps == ASSUME IInv, MInv, AllOperations PROVE MInv'
  <1> DEFINE f == mail.on
             t == Named("operations") = {}
  <1>1. mail.at \in Reading /\ MailGoesOn /\ mail.event.kind = "request"
    BY DEF AllOperations, Reading, MInv, TriedOK
  <1>2. CASE mail.event.operation \in Named("operations")
    <2>1. mail' = [mail EXCEPT !.at = "services", !.on = f]
      BY <1>1, <1>2, TriedFilter, OnIsKept DEF AllOperations
    <2>2. Selected(filter[f].operations, mail.event.operation)
      BY <1>2 DEF Named, Selected
    <2>3. "services" \in Reading
      BY DEF Reading
    <2> QED
      BY <1>1, <2>1, <2>2, <2>3, TriedFilter, TriedNext
  <1>3. CASE mail.event.operation \notin Named("operations")
    <2>1. mail' = Dropped(f, t) /\ t \in BOOLEAN
      BY <1>3 DEF AllOperations
    <2>2. ASSUME ~t, StillThere(mail.event) PROVE "no" \in meant[f]
      <3>1. filter[f] # None /\ ~Selects(filter[f], mail.event)
        BY <1>1, <1>3, <2>2 DEF Named, Selects, Selected
      <3> QED
        BY <1>1, <2>2, <3>1, TriedFilter, NoIsMeant
    <2> HIDE DEF t
    <2> QED
      BY <1>1, <2>1, <2>2, TriedFilter, DroppedKeeps
  <1> QED
    BY <1>2, <1>3

(* All criteria have been looked at but the condition, which is rendered from the listed row. *)
LEMMA RenderedKeeps ==
  ASSUME IInv, MInv, mail.at \in {"services", "all services"}, MailGoesOn, mail' = Rendered,
         Named("services") = {} \/ mail.event.service \in Named("services")
  PROVE  MInv'
  <1> DEFINE f == mail.on
  <1>1. mail.at \in Reading
    BY DEF Reading
  <1>2. f \in Filter /\ HeldOK(f) /\ Listed(f)
    BY <1>1, TriedFilter
  <1>3. CASE WhenRender(mail.left[f].when, mail.event.spec)
    <2>1. mail' = [mail EXCEPT !.at = "sent", !.on = f]
      BY <1>1, <1>3, TriedFilter, OnIsKept DEF Rendered
    <2>2. ASSUME f \notin hazy, filter[f] # None PROVE "yes" \in meant[f]
      <3>1. SameRow(filter[f], mail.left[f])
        BY <1>2, <2>2 DEF HeldOK
      <3>2. Selected(filter[f].states, mail.event.state)
        BY <1>1, <3>1, TriedFilter DEF SameRow
      <3>3. Selected(filter[f].services, mail.event.service)
        BY <2>2 DEF Named, Selected
      <3>4. mail.event.kind = "request" => Selected(filter[f].operations, mail.event.operation)
        BY <1>1, <2>2, TriedFilter DEF MInv, TriedOK
      <3>5. WhenRender(filter[f].when, mail.event.spec)
        BY <1>3, <3>1 DEF SameRow
      <3>6. Selects(filter[f], mail.event)
        BY <3>2, <3>3, <3>4, <3>5 DEF Selects
      <3> QED
        BY <1>1, <1>2, <2>2, <3>6, TriedFilter, YesIsMeant
    <2>3. Selected(mail.left[f].states, mail.event.state)
      BY <1>1, TriedFilter
    <2> QED
      BY <1>1, <1>2, <2>1, <2>2, <2>3, TriedNext
  <1>4. CASE ~WhenRender(mail.left[f].when, mail.event.spec)
    <2>1. mail' = Dropped(f, FALSE)
      BY <1>4 DEF Rendered
    <2>2. "no" \in meant[f]
      BY <1>2, <1>4 DEF HeldOK
    <2> QED
      BY <1>1, <1>2, <2>1, <2>2, DroppedKeeps
  <1> QED
    BY <1>3, <1>4

LEMMA ServicesExistKeeps == ASSUME IInv, MInv, ServicesExist PROVE MInv'
  <1>1. mail.at = "services" /\ mail.at \in Reading /\ MailGoesOn
    BY DEF ServicesExist, Reading
  <1>2. CASE Named("services") = {}
    BY <1>1, <1>2, RenderedKeeps DEF ServicesExist
  <1>3. CASE Named("services") # {}
    <2>1. mail' = [mail EXCEPT !.at = "all services", !.on = mail.on]
      BY <1>1, <1>3, TriedFilter, OnIsKept DEF ServicesExist
    <2>2. mail.event.kind = "request" =>
             \/ mail.on \in hazy \/ filter[mail.on] = None
             \/ Selected(filter[mail.on].operations, mail.event.operation)
      BY <1>1, TriedFilter DEF MInv, TriedOK
    <2>3. "all services" \in Reading
      BY DEF Reading
    <2> QED
      BY <1>1, <2>1, <2>2, <2>3, TriedFilter, TriedNext
  <1> QED
    BY <1>2, <1>3

LEMMA AllServicesKeeps == ASSUME IInv, MInv, AllServices PROVE MInv'
  <1> DEFINE f == mail.on
             t == Named("services") = {}
  <1>1. mail.at = "all services" /\ mail.at \in Reading /\ MailGoesOn
    BY DEF AllServices, Reading
  <1>2. CASE mail.event.service \in Named("services")
    BY <1>1, <1>2, RenderedKeeps DEF AllServices
  <1>3. CASE mail.event.service \notin Named("services")
    <2>1. mail' = Dropped(f, t) /\ t \in BOOLEAN
      BY <1>3 DEF AllServices
    <2>2. ASSUME ~t, StillThere(mail.event) PROVE "no" \in meant[f]
      <3>1. filter[f] # None /\ ~Selects(filter[f], mail.event)
        BY <1>3, <2>2 DEF Named, Selects, Selected
      <3> QED
        BY <1>1, <2>2, <3>1, TriedFilter, NoIsMeant
    <2> HIDE DEF t
    <2> QED
      BY <1>1, <2>1, <2>2, TriedFilter, DroppedKeeps
  <1> QED
    BY <1>2, <1>3

LEMMA NotifiedKeeps == ASSUME IInv, MInv, Notified PROVE MInv'
  BY IdleKeeps DEF Notified, MailGoesOn, Idle

(* A mail only reads. *)
LEMMA MailKeepsForms == ASSUME IInv, UNCHANGED <<settings, thread>> PROVE IInv'
  <1>1. FormTypeOK'
    BY DEF settings, IInv, FormTypeOK
  <1>2. FormsOK'
    BY DEF settings, IInv, FormsOK, FormOK, Saving, At
  <1>3. \A f \in Filter : Covered(f)' /\ Clean(f)'
    BY DEF settings, IInv, Covered, Clean, Saving
  <1> QED
    BY <1>1, <1>2, <1>3 DEF IInv

-----------------------------------------------------------------------------
(* The theorems. *)

(* At the start every filter is its one wish, no form is being saved and no mail prepared. *)
THEOREM InitIInv == Init => IInv /\ MInv
  <1> SUFFICES ASSUME Init PROVE IInv /\ MInv
    OBVIOUS
  <1>1. FormTypeOK
    BY Distinct DEF Init, FormTypeOK, Idle
  <1>2. FormsOK
    BY DEF Init, FormsOK, Saving, Idle
  <1>3. \A f \in Filter : Covered(f) /\ Clean(f)
    BY DEF Init, Covered, Clean
  <1>4. MInv
    BY DEF Init, MInv, MailTypeOK, Followed, Idle
  <1> QED
    BY <1>1, <1>2, <1>3, <1>4 DEF IInv

(* No commit of a form, query of a mail or deletion leaves a criterion of a filter without a wish
   behind it, or a mail without a reason for what it found out. *)
THEOREM StepIInv == IInv /\ MInv /\ [Next]_vars => IInv' /\ MInv'
  <1> SUFFICES ASSUME IInv, MInv, [Next]_vars PROVE IInv' /\ MInv'
    OBVIOUS
  <1>1. CASE UNCHANGED vars
    <2>1. IInv'
      BY <1>1, MailKeepsForms DEF vars
    <2>2. UNCHANGED <<filter, service, operation, wish, blurred, thread, mail, meant, hazy>>
      BY <1>1 DEF vars, settings
    <2>3. \A f \in Filter : /\ (Listed(f)' <=> Listed(f)) /\ (Shaky(f)' <=> Shaky(f))
                            /\ (HeldOK(f)' <=> HeldOK(f))
      BY <2>2 DEF Listed, Shaky, Saving, HeldOK
    <2>4. (DroppedOK' <=> DroppedOK) /\ (TriedOK' <=> TriedOK) /\ (OverOK' <=> OverOK)
      BY <2>2 DEF DroppedOK, TriedOK, OverOK, Excused, StillThere, Listed
    <2> QED
      BY <2>1, <2>2, <2>3, <2>4 DEF MInv, MailTypeOK, Followed
  <1>2. CASE \E u \in User, e \in Event : Notify(u, e)
    BY <1>2, NotifyKeeps, MailKeepsForms DEF Notify, MailGoesOn
  <1>3. CASE CountFilters \/ ListFilters \/ Notified
    BY <1>3, CountFiltersKeeps, ListFiltersKeeps, NotifiedKeeps, MailKeepsForms
       DEF CountFilters, ListFilters, Notified, MailGoesOn
  <1>4. CASE \E f \in Filter : TryFilter(f)
    BY <1>4, TryFilterKeeps, MailKeepsForms DEF TryFilter, MailGoesOn
  <1>5. CASE OperationsExist \/ AllOperations \/ ServicesExist \/ AllServices
    BY <1>5, OperationsExistKeeps, AllOperationsKeeps, ServicesExistKeeps, AllServicesKeeps,
       MailKeepsForms DEF OperationsExist, AllOperations, ServicesExist, AllServices, MailGoesOn
  <1>6. CASE \E h \in Web, f \in Filter, row \in Row : Create(h, f, row) \/ Edit(h, f, row)
    BY <1>6, CreateKeeps, EditKeeps, PostDisturbs, OthersKeep
  <1>7. CASE \E h \in Web : SaveServices(h) \/ SaveOperations(h) \/ Crash(h)
    BY <1>7, SaveServicesKeeps, SaveOperationsKeeps, CrashKeeps, SaveDisturbs, OthersKeep
  <1>8. CASE \/ \E f \in Filter : DeleteFilter(f)
             \/ \E v \in Service : DeleteService(v)
             \/ \E p \in Operation : DeleteOperation(p)
    BY <1>8, DeleteFilterKeeps, DeleteServiceKeeps, DeleteOperationKeeps, DeletionDisturbs, OthersKeep
  <1> QED
    BY <1>1, <1>2, <1>3, <1>4, <1>5, <1>6, <1>7, <1>8 DEF Next

(* Each criterion of a filter comes from a wish at every moment of the saving of its forms, and
   what a mail has read of it from a moment of the mail. *)
THEOREM Invariant == Spec => [](IInv /\ MInv)
  BY InitIInv, StepIInv, PTL DEF Spec

(* Every column, and what every form and the mail hold, keeps its type. *)
THEOREM TypeCorrect == Spec => []TypeOK
  <1>1. IInv /\ MInv => TypeOK
    BY DEF IInv, MInv, TypeOK
  <1> QED
    BY <1>1, Invariant, PTL

(* A choice of what each filter was meant to say is a meaning of all of them. *)
LEMMA ChoiceIsMeaning ==
  ASSUME MailTypeOK, NEW c, c = [f \in Filter |-> c[f]], \A f \in Filter : c[f] \in meant[f]
  PROVE  c \in Meanings
  <1>1. \A f \in Filter : c[f] \in {"no filter", "yes", "no"}
    BY DEF MailTypeOK, Says
  <1> QED
    BY <1>1 DEF Meanings

(* An event a user wants, whatever his forms end up with, is mailed to him wherever the queries of
   the mail fall between their commits, but for the three named reasons. *)
THEOREM NothingIsMissed == Spec => []NothingMissed
  <1>1. ASSUME MInv PROVE NothingMissed
    <2> SUFFICES ASSUME mail.at = "skipped", ~mail.torn, StillThere(mail.event)
                 PROVE  \E c \in Meanings : ~Wants(c)
      BY DEF NothingMissed
    <2>1. MailTypeOK /\ DroppedOK /\ \A f \in Filter : ~Listed(f)
      BY <1>1 DEF MInv, OverOK
    <2>2. /\ \A f \in Filter : "no" \in meant[f] \/ "no filter" \in meant[f]
          /\ \E f \in Filter : "no" \in meant[f]
      BY <2>1 DEF DroppedOK, Excused
    <2> DEFINE c == [f \in Filter |-> IF "no" \in meant[f] THEN "no" ELSE "no filter"]
    <2>3. c = [f \in Filter |-> c[f]] /\ \A f \in Filter : c[f] \in meant[f] /\ c[f] # "yes"
      BY <2>2
    <2>4. \E f \in Filter : c[f] # "no filter"
      BY <2>2
    <2> HIDE DEF c
    <2> QED
      BY <2>1, <2>3, <2>4, ChoiceIsMeaning DEF Wants
  <1> QED
    BY <1>1, Invariant, PTL

(* A mail that no setting of the user's filters asked for has a cause: the filter that let it
   through was being saved, was cut off, had lost something it named, or was deleted. *)
THEOREM OnlyWantedIsSent == Spec => []OnlyWanted
  <1>1. ASSUME IInv, MInv PROVE OnlyWanted
    <2> SUFFICES ASSUME mail.at = "sent",
                        mail.on = None \/ (mail.on \notin hazy /\ filter[mail.on] # None)
                 PROVE  \E c \in Meanings : Wants(c)
      BY DEF OnlyWanted
    <2>1. MailTypeOK /\ Followed /\ OverOK
      BY <1>1 DEF MInv
    <2>2. CASE mail.on = None
      <3> DEFINE c == [f \in Filter |-> "no filter"]
      <3>1. c = [f \in Filter |-> c[f]] /\ \A f \in Filter : c[f] = "no filter" /\ c[f] \in meant[f]
        BY <2>1, <2>2 DEF OverOK
      <3> HIDE DEF c
      <3> QED
        BY <2>1, <3>1, ChoiceIsMeaning DEF Wants
    <2>3. CASE mail.on # None
      <3> DEFINE g == mail.on
                 c == [f \in Filter |-> IF f = g THEN "yes" ELSE CHOOSE v \in meant[f] : TRUE]
      <3>1. g \in Filter /\ "yes" \in meant[g]
        BY <2>1, <2>3 DEF OverOK
      <3>2. ASSUME NEW f \in Filter PROVE \E v \in meant[f] : TRUE
        <4>1. \E w \in wish[f] : TRUE
          BY <1>1 DEF IInv, Covered
        <4> QED
          BY <2>1, <4>1 DEF Followed
      <3>3. c = [f \in Filter |-> c[f]] /\ c[g] = "yes" /\ \A f \in Filter : c[f] \in meant[f]
        BY <3>1, <3>2
      <3> HIDE DEF c
      <3> QED
        BY <2>1, <3>1, <3>3, ChoiceIsMeaning DEF Wants
    <2> QED
      BY <2>2, <2>3
  <1> QED
    BY <1>1, Invariant, PTL

=============================================================================
