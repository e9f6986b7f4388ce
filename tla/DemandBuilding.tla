----------------------------- MODULE DemandBuilding -----------------------------
(***************************************************************************)
(* DemandBuilder (resources/demand/demand_builder.py) collects properties  *)
(* and constraints of payloads (payload/), which are then serialized for   *)
(* the market and, on the other side or by the parser, read again.         *)
(*                                                                         *)
(* A tree of constraints is a map of numbered elements in which a group    *)
(* has the numbers of its items, each below its own.  A text is the tree   *)
(* that its parentheses describe: every element that leaves a text has it  *)
(* under the same number.                                                  *)
(***************************************************************************)
EXTENDS Integers, Sequences, FiniteSets

CONSTANTS
    Elements,  \* the constraints and groups of all payloads
    Payloads,  \* [props, cons, hash, image]: properties, the number of the group of
               \* the constraints, the image of a RepositoryVmPayload
    Package,   \* key of the package url
    TimeKeys,  \* keys of fields of type datetime
    Operators, \* operators a builder starts with
    Offers,    \* values of the properties of an offer
    MaxAdds,   \* bound
    Unset      \* None

VARIABLES
    constraints, properties, \* of the builder
    added,                   \* payloads added, with the properties they built
    raised                   \* an add() raised

buildVars == <<constraints, properties, added, raised>>

\* A list of values, or one.
Constraint(name, op, list, values) ==
    [kind |-> "constraint", name |-> name, op |-> op, list |-> list, values |-> values]
\* What is made while a list is written has no number: it is a part.
ConstraintGroup(op, items, parts) ==
    [kind |-> "group", op |-> op, items |-> items, parts |-> parts]
Group(op, items) == ConstraintGroup(op, items, {})

\* _validate()
Valid(group) == group.op = "!" => Cardinality(group.items \cup group.parts) <= 1

ElementAssumption ==
    /\ DOMAIN Elements = 1..Len(Elements) /\ Len(Elements) \in Nat
    /\ \A n \in DOMAIN Elements :
        \/ /\ \E items \in SUBSET (1..(n - 1)) : Elements[n] = Group(Elements[n].op, items)
           /\ Elements[n].op \in {"&", "|", "!"} /\ Valid(Elements[n])
        \/ \E e \in {Elements[n]} :
              /\ e = Constraint(e.name, e.op, e.list, e.values) /\ e.list \in BOOLEAN
              /\ ~e.list => \E v \in e.values : e.values = {v}

BuilderAssumption ==
    /\ Operators \subseteq {"&", "|"} /\ MaxAdds \in Nat /\ Package \notin TimeKeys
    /\ ElementAssumption
    /\ \A p \in Payloads :
        /\ p.cons \in DOMAIN Elements /\ Elements[p.cons].kind = "group"
        /\ p.props = [k \in DOMAIN p.props |-> p.props[k]]
        /\ \A k \in DOMAIN p.props \cap TimeKeys :
              p.props[k] = Unset \/ p.props[k].clock \in Int

BuildInit ==
    /\ \E op \in Operators : constraints = Group(op, {})
    /\ properties = <<>> /\ added = <<>> /\ raised = FALSE

-----------------------------------------------------------------------------
(* Payloads.                                                               *)

\* _resolve_package_url(): the image is found at its url, or the one that a
\* repository, asked by DNS or the fallback, knows for the hash.
PackageUrl(p) ==
    IF p.hash = Unset THEN Unset ELSE <<p.hash, IF p.image # Unset THEN p.image ELSE "repository">>

\* build_properties_and_constraints()
BuiltProps(p) ==
    IF Package \notin DOMAIN p.props \/ p.props[Package] # Unset THEN p.props
    ELSE [p.props EXCEPT ![Package] = PackageUrl(p)]

\* A url is asked for.
Resolves(p) == Package \in DOMAIN p.props /\ p.props[Package] = Unset /\ p.hash # Unset

-----------------------------------------------------------------------------
(* The builder.                                                            *)

\* Mutant: the items of every group are taken over.
FlattenAll(op, group) == TRUE

Flattened(op, group) == group.op = op

\* dict.update()
Updated(old, new) ==
    [k \in DOMAIN old \cup DOMAIN new |-> IF k \in DOMAIN new THEN new[k] ELSE old[k]]

Add(p) ==
    /\ Len(added) < MaxAdds
    /\ added' = Append(added, [cons |-> p.cons, props |-> BuiltProps(p)])
    /\ properties' = Updated(properties, BuiltProps(p))
    /\ constraints' = [constraints EXCEPT !.items = @ \cup
          IF Flattened(constraints.op, Elements[p.cons]) THEN Elements[p.cons].items
          ELSE {p.cons}]
    /\ UNCHANGED raised

AddRaises(p) ==
    /\ Resolves(p)
    /\ raised' = TRUE
    /\ UNCHANGED <<constraints, properties, added>>

BuildNext == \E p \in Payloads : Add(p) \/ AddRaises(p)

BuildSpec == BuildInit /\ [][BuildNext]_buildVars

-----------------------------------------------------------------------------
(* Constraints as text.                                                    *)

\* "not value": zero, as None or the empty string, and the empty list.
Falsy(e) == e.kind = "constraint" /\ (e.values = {} \/ (~e.list /\ e.values = {0}))

\* Items without a text leave no trace, a list means all of its values.
GroupText(group, elements) ==
    ConstraintGroup(group.op, {i \in group.items : ~Falsy(elements[i])},
                    {c \in group.parts : ~Falsy(c)})
Text(e, elements) ==
    IF e.kind = "group" THEN GroupText(e, elements)
    ELSE IF e.list
    THEN LET each == {Constraint(e.name, e.op, FALSE, {v}) : v \in e.values}
         IN GroupText(ConstraintGroup("&", {}, each), elements)
    ELSE e
Texts(elements) ==
    [n \in {m \in DOMAIN elements : ~Falsy(elements[m])} |-> Text(elements[n], elements)]

\* parse_constraints(): one value each, as no list is written.
ParsedValue(t) == Constraint(t.name, t.op, FALSE, t.values)
Parsed(t) ==
    IF t.kind = "group" THEN ConstraintGroup(t.op, t.items, {ParsedValue(c) : c \in t.parts})
    ELSE ParsedValue(t)

\* How the market reads a text: the offers that meet it.
Compare(a, op, b) ==
    CASE op = "=" -> a = b [] op = "<=" -> a <= b [] op = ">=" -> a >= b
      [] op = "<" -> a < b [] op = ">" -> a > b
Fits(c, offer) == \A v \in c.values : Compare(offer[c.name], c.op, v)
Meets(e, met) ==
    {offer \in Offers :
       IF e.kind = "constraint" THEN Fits(e, offer)
       ELSE CASE e.op = "&" -> /\ \A i \in e.items : offer \in met[i]
                               /\ \A c \in e.parts : Fits(c, offer)
              [] e.op = "|" -> \/ \E i \in e.items : offer \in met[i]
                               \/ \E c \in e.parts : Fits(c, offer)
              [] e.op = "!" -> /\ \A i \in e.items : offer \notin met[i]
                               /\ \A c \in e.parts : ~Fits(c, offer)}
Meaning(elements) == LET met[n \in DOMAIN elements] == Meets(elements[n], met) IN met

-----------------------------------------------------------------------------
(* Properties as the market has them; what is None is left out.            *)

\* The wall clock of a datetime is taken for UTC, in milliseconds.
SerializeValue(k, v) == IF k \in TimeKeys THEN v.clock ELSE v

Serialized(props) ==
    [k \in {j \in DOMAIN props : props[j] # Unset} |-> SerializeValue(k, props[k])]

\* from_properties() picks the fields it knows; whole seconds remain.
DeserializeValue(k, v) ==
    IF k \in TimeKeys THEN [clock |-> (v \div 1000) * 1000, zone |-> 0] ELSE v

FromProperties(keys, props) ==
    [k \in keys \cap DOMAIN props |-> DeserializeValue(k, props[k])]

-----------------------------------------------------------------------------
Written == Texts(Elements)
ReadAgain == [n \in DOMAIN Written |-> Parsed(Written[n])]
Meant == Meaning(Elements)
Asked == Meaning(Written)

\* The constraints under an element that have no value, or one like 0.
Zeros[n \in DOMAIN Elements] ==
    LET e == Elements[n] IN
    IF e.kind = "group" THEN UNION {Zeros[i] : i \in e.items}
    ELSE IF e.values = {} \/ 0 \in e.values THEN {n} ELSE {}

Holds(offer) ==
    IF constraints.op = "&" THEN \A i \in DOMAIN added : offer \in Meant[added[i].cons]
    ELSE \E i \in DOMAIN added : offer \in Meant[added[i].cons]

\* Nothing added later has this key.
Newest(i, k) == \A j \in (i + 1)..Len(added) : k \notin DOMAIN added[j].props

Read == FromProperties(DOMAIN properties, Serialized(properties))
ReadBack(k, v) ==
    IF v = Unset THEN k \notin DOMAIN Read
    ELSE /\ k \in DOMAIN Read
         /\ k \notin TimeKeys => Read[k] = v
         /\ k \in TimeKeys /\ v.zone = 0 => v.clock - Read[k].clock \in 0..999

(***************************************************************************)
(* MeaningKept: the text of the demand is met by exactly the offers that   *)
(* meet all the payloads added (or one of them, for a builder of           *)
(* alternatives), as long as no constraint has a value like 0, which       *)
(* leaves no text; the parser accepts every text, and what it makes of it  *)
(* is written like it; and the properties of the last payload that has a   *)
(* key are read back, times to the second if they are in UTC               *)
(* (constraints.py serialize, demand_builder.py add_constraints, mixins.py,*)
(* base.py from_properties).                                               *)
(***************************************************************************)
TextMeans(t) == (\A i \in constraints.items : Zeros[i] = {}) =>
    \A offer \in Offers : offer \in Meets(t, Asked) <=> Holds(offer)
ElementsAlike ==
    /\ \A n \in DOMAIN Written : Written[n].kind = "group" => Valid(Written[n])
    /\ Texts(ReadAgain) = Written
WrittenAlike(t) == ElementsAlike /\ Valid(t) /\ Text(Parsed(t), ReadAgain) = t
PropertiesRead ==
    \A i \in DOMAIN added : \A k \in DOMAIN added[i].props :
        Newest(i, k) => ReadBack(k, added[i].props[k])

MeaningKept ==
    /\ TextMeans(Text(constraints, Elements)) /\ WrittenAlike(Text(constraints, Elements))
    /\ PropertiesRead
=============================================================================
