--------------------------- MODULE ResourceTracker ---------------------------
(***************************************************************************)
(* The resource tracker: groups of resources, the attributes linked to a   *)
(* group, and what one group consumes from another.  A Transformer links   *)
(* an attribute to a group and caches two sums: what the resources of the  *)
(* group produce, and what the transformers that consume from it take.     *)
(* Every handler that changes a resource or a link is one action, with the *)
(* recounts it makes and the chain of recounts that post_save sets off.    *)
(*                                                                         *)
(* Bounds: a group has no state of its own (a deleted one is at once an    *)
(* empty new one), a factor divides Unit, and the sum of quotients is      *)
(* taken without the rounding of floats.                                   *)
(***************************************************************************)
EXTENDS Integers, FiniteSets, FiniteSetsExt

CONSTANTS Row,        \* (resource group, attribute definition) a Transformer may link
          Resource,   \* primary keys of resources
          Value,      \* values of a ResourceAttribute
          Factor,     \* factors of a Transformer
          Unit,       \* a common multiple of the factors
          Null

ASSUME TrackerAssumption ==
    /\ IsFiniteSet(Row) /\ IsFiniteSet(Resource) /\ Null \notin Row
    /\ \A r \in Row : r = <<r[1], r[2]>>
    /\ Value \subseteq Nat /\ 0 \in Value
    /\ Factor \subseteq Nat \ {0} /\ Unit \in Nat \ {0}
    /\ \A f \in Factor : Unit % f = 0

VARIABLES transformer,  \* Row -> Null or the Transformer
          resource      \* Resource -> Null or its group and values

vars == <<transformer, resource>>

Group     == {r[1] : r \in Row}
Attribute == {r[2] : r \in Row}
Values    == [Attribute -> Value]

Transformer == [parent: Row \cup {Null}, factor: Factor, produced: Nat, consumed: Nat]
ResourceRow == [group: Group, value: Values]

ASSUME NullIsNoRow == Null \notin Transformer \cup ResourceRow

-----------------------------------------------------------------------------
(* The sums, computed from the rows t of Transformer and x of Resource.    *)

Linked(t)      == {r \in Row : t[r] # Null}
Children(t, r) == {c \in Linked(t) : t[c].parent = r}
Members(x, g)  == {i \in Resource : x[i] # Null /\ x[i].group = g}

\* What the resources produce of attribute a, and Unit times what the transformers consume.
Produces(x, a) == [i \in {j \in Resource : x[j] # Null} |-> x[i].value[a]]
Consumes(t)    == [c \in Linked(t) |-> t[c].produced * (Unit \div t[c].factor)]

ProducedOf(x, r) == MapThenSumSet(LAMBDA i : Produces(x, r[2])[i], Members(x, r[1]))

\* The quotients are added before IntegerField cuts the decimals of the sum.
ConsumedOf(t, r) == MapThenSumSet(LAMBDA c : Consumes(t)[c], Children(t, r)) \div Unit

\* get_parent: the link may name an attribute the group does not have (any more).
ParentOf(t, r) == {p \in Linked(t) : t[r].parent = p}

\* The transformers that notify_parent reaches from r, one save after the other.
Ancestors(t, r) ==
    LET up[n \in 0 .. Cardinality(Row)] ==
            IF n = 0 THEN ParentOf(t, r)
            ELSE up[n - 1] \cup UNION {ParentOf(t, p) : p \in up[n - 1]}
    IN  up[Cardinality(Row)]

\* mutant: the recount is left to the next one
NobodyNotified(t, R) == t

Notified(t, R) ==
    LET up == UNION {Ancestors(t, r) : r \in R}
    IN  [r \in Row |-> IF r \in up THEN [t[r] EXCEPT !.consumed = ConsumedOf(t, r)] ELSE t[r]]

\* calculate_total_produced of the transformers R, and what their saves set off.
Recounted(t, x, R) ==
    Notified([r \in Row |-> IF r \in R THEN [t[r] EXCEPT !.produced = ProducedOf(x, r)] ELSE t[r]], R)

RowsOf(t, g) == {r \in Linked(t) : r[1] = g}

-----------------------------------------------------------------------------
(* Transformers.                                                           *)

Init == transformer = [r \in Row |-> Null] /\ resource = [i \in Resource |-> Null]

\* The rows a form offers to consume from; a group cannot consume from itself.
Targets(g) == {p \in Linked(transformer) : p[1] # g} \cup {Null}

\* mutant: only the target itself is compared with the source
LoopOfOne(r, p) == r = p

\* is_loop_consumption_detected: without a source transformer there is no loop.
LoopDetected(r, p) ==
    /\ r \in Linked(transformer)
    /\ p # Null
    /\ \/ r \in {p} \cup Ancestors(transformer, p)
       \/ \E q \in {p} \cup Ancestors(transformer, p) : q \in Ancestors(transformer, q)

\* A created transformer starts at zero and notifies nobody.
CreateTransformer(r, p, f) ==
    /\ r \notin Linked(transformer)
    /\ p \in Targets(r[1])
    /\ ~LoopDetected(r, p)
    /\ transformer' = [transformer EXCEPT
                           ![r] = [parent |-> p, factor |-> f, produced |-> 0, consumed |-> 0]]
    /\ UNCHANGED resource

\* The form and the serializer save the row: post_save tells the new parent, and only it.
EditTransformer(r, p, f) ==
    /\ r \in Linked(transformer)
    /\ p \in Targets(r[1])
    /\ ~LoopDetected(r, p)
    /\ transformer' = Notified([transformer EXCEPT ![r] = [@ EXCEPT !.parent = p, !.factor = f]], {r})
    /\ UNCHANGED resource

\* The serializer also lets the row itself change; validation knows no transformer s yet.
MoveTransformer(r, s, p) ==
    /\ r \in Linked(transformer)
    /\ s \notin Linked(transformer)
    /\ p \in Targets(s[1])
    /\ ~LoopDetected(s, p)
    /\ transformer' = Notified([transformer EXCEPT ![r] = Null,
                                                   ![s] = [transformer[r] EXCEPT !.parent = p]], {s})
    /\ UNCHANGED resource

\* What is left of the rows when R is deleted: the children of R are set free.
Unlinked(R) ==
    [r \in Row |-> IF r \in R \/ transformer[r] = Null THEN Null
                   ELSE IF transformer[r].parent \in R THEN [transformer[r] EXCEPT !.parent = Null]
                   ELSE transformer[r]]

\* Transformer.delete deletes the values of the attribute in the group first.
DeleteTransformer(r) ==
    /\ r \in Linked(transformer)
    /\ transformer' = Unlinked({r})
    /\ resource' = [i \in Resource |-> IF i \in Members(resource, r[1])
                                       THEN [resource[i] EXCEPT !.value[r[2]] = 0]
                                       ELSE resource[i]]

\* The cascade deletes rows without calling Transformer.delete or Resource.delete.
DeleteGroup(g) ==
    /\ transformer' = Unlinked({r \in Row : r[1] = g})
    /\ resource' = [i \in Resource |-> IF i \in Members(resource, g) THEN Null ELSE resource[i]]

DeleteAttribute(a) ==
    /\ transformer' = Unlinked({r \in Row : r[2] = a})
    /\ resource' = [i \in Resource |-> IF resource[i] = Null THEN Null
                                       ELSE [resource[i] EXCEPT !.value[a] = 0]]

-----------------------------------------------------------------------------
(* Resources.                                                              *)

AttributesOf(g) == {r[2] : r \in RowsOf(transformer, g)}

\* The values v of the attributes in A, the old ones elsewhere.
Overwritten(old, A, v) == [a \in Attribute |-> IF a \in A THEN v[a] ELSE old[a]]

\* ResourceForm and the serializer: create the row, then set_attribute for each attribute.
CreateResource(i, g, v) ==
    /\ resource[i] = Null
    /\ resource' = [resource EXCEPT
           ![i] = [group |-> g, value |-> Overwritten([a \in Attribute |-> 0], AttributesOf(g), v)]]
    /\ transformer' = Recounted(transformer, resource', RowsOf(transformer, g))

EditResource(i, g, v) ==
    /\ resource[i] # Null
    /\ g = resource[i].group
    /\ resource' = [resource EXCEPT ![i].value = Overwritten(@, AttributesOf(g), v)]
    /\ transformer' = Recounted(transformer, resource', RowsOf(transformer, g))

\* ResourceMoveForm saves the new group and recounts neither.
MoveResource(i, g) ==
    /\ resource[i] # Null
    /\ resource' = [resource EXCEPT ![i].group = g]
    /\ UNCHANGED transformer

\* ResourceSerializer.update: the attributes A of the new group g are stored and recounted in
\* the old group, one after the other; the group changes last.
UpdateResource(i, g, A, v) ==
    /\ resource[i] # Null
    /\ A \subseteq AttributesOf(g) \cap AttributesOf(resource[i].group)
    /\ LET stored == [resource EXCEPT ![i].value = Overwritten(@, A, v)]
       IN  /\ transformer' = Recounted(transformer, stored,
                                       {r \in RowsOf(transformer, resource[i].group) : r[2] \in A})
           /\ resource' = [stored EXCEPT ![i].group = g]

\* The old group has no transformer of attribute a: its value is stored, then Transformer.get raises.
UpdateResourceFails(i, g, A, a, v) ==
    /\ resource[i] # Null
    /\ A \subseteq AttributesOf(g) \cap AttributesOf(resource[i].group)
    /\ a \in AttributesOf(g) \ AttributesOf(resource[i].group)
    /\ resource' = [resource EXCEPT ![i].value = Overwritten(@, A \cup {a}, v)]
    /\ transformer' = Recounted(transformer, resource',
                                {r \in RowsOf(transformer, resource[i].group) : r[2] \in A})

\* Resource.delete, by hand, in bulk or with its instance.
DeleteResource(i) ==
    /\ resource[i] # Null
    /\ resource' = [resource EXCEPT ![i] = Null]
    /\ transformer' = Recounted(transformer, resource', RowsOf(transformer, resource[i].group))

Next ==
    \/ \E r \in Row, p \in Row \cup {Null}, f \in Factor : CreateTransformer(r, p, f)
    \/ \E r \in Row, p \in Row \cup {Null}, f \in Factor : EditTransformer(r, p, f)
    \/ \E r, s \in Row, p \in Row \cup {Null} : MoveTransformer(r, s, p)
    \/ \E r \in Row : DeleteTransformer(r)
    \/ \E g \in Group : DeleteGroup(g)
    \/ \E a \in Attribute : DeleteAttribute(a)
    \/ \E i \in Resource, g \in Group : \E v \in [AttributesOf(g) -> Value] : CreateResource(i, g, v)
    \/ \E i \in Resource, g \in Group : \E v \in [AttributesOf(g) -> Value] : EditResource(i, g, v)
    \/ \E i \in Resource, g \in Group : MoveResource(i, g)
    \/ \E i \in Resource, g \in Group, A \in SUBSET Attribute : \E v \in [A -> Value] :
           UpdateResource(i, g, A, v)
    \/ \E i \in Resource, g \in Group, A \in SUBSET Attribute, a \in Attribute :
           \E v \in [A \cup {a} -> Value] : UpdateResourceFails(i, g, A, a, v)
    \/ \E i \in Resource : DeleteResource(i)

Spec == Init /\ [][Next]_vars

-----------------------------------------------------------------------------
(* What the totals promise.                                                *)

\* The rows have their types.
TypeOK ==
    /\ transformer \in [Row -> Transformer \cup {Null}]
    /\ resource \in [Resource -> ResourceRow \cup {Null}]

\* The transformers whose cached totals differ from the sums.
Wrong == {r \in Linked(transformer) :
             \/ transformer[r].produced # ProducedOf(resource, r)
             \/ transformer[r].consumed # ConsumedOf(transformer, r)}

\* No value is stored for an attribute its group does not have.
NothingHidden ==
    \A i \in Resource : resource[i] # Null =>
        \A a \in Attribute : resource[i].value[a] # 0 => <<resource[i].group, a>> \in Linked(transformer)

\* Whoever consumes, consumes from a transformer that exists.
NoDangling == \A r \in Linked(transformer) : transformer[r].parent \in Linked(transformer) \cup {Null}

NoLoop == \A r \in Linked(transformer) : r \notin Ancestors(transformer, r)

Balanced == Wrong = {} /\ NothingHidden /\ NoDangling

LostChild(r) == \E c \in Children(transformer, r) : c \notin Children(transformer', r)

\* A resource was moved into or out of the group.
Moved(g) == \E i \in Resource : /\ resource[i] # Null /\ resource'[i] # Null
                                /\ resource[i].group # resource'[i].group
                                /\ g \in {resource[i].group, resource'[i].group}

\* The API gave another row to a transformer.
MovedTo(r) == r \notin Linked(transformer) /\ \E s \in Linked(transformer) : s \notin Linked(transformer')

\* The totals follow the rows (transformer.py:132-169, resource.py:43-70).  From balanced totals a
\* step leaves a total wrong only in the transformer that lost a child, in a group a resource was
\* moved into or out of, or in a transformer that was itself moved to another row.
TotalsFollow ==
    [][Balanced => \A r \in Wrong' : \/ LostChild(r)
                                     \/ Moved(r[1])
                                     \/ MovedTo(r)]_vars

\* Nothing consumes from itself through others: the loop check of the forms is enough as long as no
\* link dangles, and only the API's change of a transformer's own row leaves links dangling
\* (transformer.py:58-79, transformer_serializer.py:14-54).
LinksStaySound ==
    [][NoDangling /\ NoLoop =>
          /\ NoLoop'
          /\ NoDangling' \/ \E r \in Linked(transformer), s \in Linked(transformer') :
                                r \notin Linked(transformer') /\ s \notin Linked(transformer)]_vars
=============================================================================
