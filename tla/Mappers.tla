------------------------------ MODULE Mappers -------------------------------
(***************************************************************************)
(* The mappers of the connector (connector/unit/mapper.py): what a class   *)
(* statement makes of the decorated methods (MetaMapper) and which of the  *)
(* mappings an export of some changed fields applies (Mapper._apply).      *)
(*                                                                         *)
(* The mapping methods of a class are kept in a dict whose values are      *)
(* shared between a class and the ones derived from it: the set changed_by *)
(* of a method is an object, here a cell named for the class that made it, *)
(* and a class with two bases writes into the cell of its first base.      *)
(***************************************************************************)
EXTENDS ConnectorUnits

CONSTANTS Fields,     \* the fields of a record
          Methods,    \* the names of mapping methods
          Bodies      \* the bodies the statement of a class may have

\* A body: the set of fields that `direct' and `children' name, as a sequence that
\* is empty when the class has no such attribute, and its decorated methods.
Inherited == <<>>

ASSUME BodiesAssumption ==
    \A c \in Classes : \A b \in Bodies[c] :
        /\ b.direct \in {Inherited} \cup {<<S>> : S \in SUBSET Fields}
        /\ DOMAIN b.methods \subseteq Methods
        /\ \A m \in DOMAIN b.methods :
               b.methods[m] \in [changedBy : SUBSET Fields, onlyCreate : BOOLEAN]

VARIABLES body,      \* the body of every class
          basesOf,   \* its bases
          methods,   \* its _map_methods: a cell and the flag of every method
          changedBy  \* the content of the cells

mapVars == <<body, basesOf, methods, changedBy>>
vars == <<unitVars, mapVars>>

Put(f, x, v) == [y \in DOMAIN f \cup {x} |-> IF y = x THEN v ELSE f[y]]

MappersTypeOK ==
    /\ UnitsTypeOK
    /\ DOMAIN body = Defined /\ DOMAIN basesOf = Defined /\ DOMAIN methods = Defined
    /\ \A c \in Defined : \A m \in DOMAIN methods[c] :
           <<methods[c][m].maker, m>> \in DOMAIN changedBy
    /\ \A cell \in DOMAIN changedBy : changedBy[cell] \subseteq Fields

Init ==
    /\ InitUnits
    /\ body = <<>> /\ basesOf = <<>> /\ methods = <<>> /\ changedBy = <<>>

-----------------------------------------------------------------------------
\* MetaMapper.__new__

\* The methods of the bases: of a name that several bases have, the first.
FromBases(bases) ==
    LET names == UNION {DOMAIN methods[bases[i]] : i \in DOMAIN bases}
        first(m) == CHOOSE i \in DOMAIN bases :
                        /\ m \in DOMAIN methods[bases[i]]
                        /\ \A j \in 1..(i - 1) : m \notin DOMAIN methods[bases[j]]
    IN  [m \in names |-> methods[bases[first(m)]][m]]

\* The sets that a class with several bases updates in place: the one of the
\* first base that has a method is extended with those of the other bases.
UpdatedInPlace(bases) ==
    LET merged == FromBases(bases)
    IN  [cell \in DOMAIN changedBy |->
            changedBy[cell] \cup
                IF cell[2] \in DOMAIN merged /\ merged[cell[2]].maker = cell[1]
                THEN UNION {changedBy[<<methods[bases[i]][cell[2]].maker, cell[2]>>] :
                                i \in {j \in DOMAIN bases :
                                          cell[2] \in DOMAIN methods[bases[j]]}}
                ELSE {}]

\* Mutant of NewCell: the method of a subclass is only triggered by the fields of
\* its own decorator.
NewCellOwn(own, m, inherited, cells) == own[m].changedBy

\* The set made for a method that the class itself defines: the fields of its
\* decorator and those of the definition it overrides.
NewCell(own, m, inherited, cells) ==
    own[m].changedBy \cup
        IF m \in DOMAIN inherited THEN cells[<<inherited[m].maker, m>>] ELSE {}

DefineMapper(c, bases, b) ==
    LET inherited == FromBases(bases)
        cells == UpdatedInPlace(bases)
        own == b.methods
    IN  /\ methods' = Put(methods, c,
               [m \in DOMAIN inherited \cup DOMAIN own |->
                   IF m \in DOMAIN own
                   THEN [maker |-> c, onlyCreate |-> own[m].onlyCreate]
                   ELSE inherited[m]])
        /\ changedBy' =
               [cell \in DOMAIN cells \cup {<<c, m>> : m \in DOMAIN own} |->
                   IF cell[1] = c THEN NewCell(own, cell[2], inherited, cells)
                   ELSE cells[cell]]
        /\ body' = Put(body, c, b)
        /\ basesOf' = Put(basesOf, c, bases)

\* The class statement of a mapper, with its decorator.
ImportMapper(c, bases, b, backend, replacing) ==
    /\ ImportUnit(c, bases, backend, replacing)
    /\ DefineMapper(c, bases, b)

-----------------------------------------------------------------------------
\* Mapper._apply_with_options

\* The attribute `direct' (or `children') that Python finds.
Direct(c) ==
    LET given == {i \in DOMAIN mro[c] : body[mro[c][i]].direct # Inherited}
    IN  IF given = {} THEN {}
        ELSE body[mro[c][CHOOSE i \in given : \A j \in given : i <= j]].direct[1]

\* A method is applied if all fields are exported, if it names none, or if one of
\* the fields it names has changed; one for creations only then.
Applied(c, m, fields, forCreate) ==
    LET triggers == changedBy[<<methods[c][m].maker, m>>]
    IN  /\ fields = {} \/ triggers = {} \/ triggers \cap fields # {}
        /\ methods[c][m].onlyCreate => forCreate

\* MapRecord.values: what the record is mapped to, as the names of the fields
\* that are copied and of the methods that are called.
Values(c, fields, forCreate) ==
    {f \in Direct(c) : fields = {} \/ f \in fields}
        \cup {m \in DOMAIN methods[c] : Applied(c, m, fields, forCreate)}

-----------------------------------------------------------------------------
\* The class statements that the code of a module can hold.
Next ==
    \/ \E c \in Classes \ Defined :
          LET known == Visible(ModuleOf[c], Defined)
          IN  \E bases \in UNION {[1..n -> known] : n \in 0..2},
                 replacing \in SUBSET known, backend \in Backends, b \in Bodies[c] :
                    ImportMapper(c, bases, b, backend, replacing)
    \/ /\ UNCHANGED mapVars
       /\ \/ \E k \in Consumers : Subscribe(k)
          \/ \E m \in Modules : EndImport(m) \/ Install(m) \/ Uninstall(m)

Spec == Init /\ [][Next]_vars

-----------------------------------------------------------------------------
\* Properties

\* The fields that change what a method of c returns, by the decorators of all the
\* definitions of it that c inherits.
Named(c, m) ==
    UNION {body[a].methods[m].changedBy :
               a \in {x \in Ancestors(c) \ {Unit} : m \in DOMAIN body[x].methods}}

\* Another class has taken this method from two bases with sets of their own, of
\* which the first is that of an ancestor of c: it may have been extended in place.
Extended(c, m) ==
    \E d \in Defined \ Ancestors(c) :
        /\ Len(basesOf[d]) = 2
        /\ \A i \in 1..2 : m \in DOMAIN methods[basesOf[d][i]]
        /\ methods[basesOf[d][1]][m].maker \in Ancestors(c)
        /\ methods[basesOf[d][1]][m].maker # methods[basesOf[d][2]][m].maker

\* Whatever fields have changed, an export maps all that depends on them: the
\* fields copied, the methods for which one of the definitions that the class
\* inherits names a changed field, and the methods for which none names any
\* (changed_by: "If changed_by is empty, the mapping is always active"). Left out
\* is a method without fields of which a class with two bases that c does not
\* inherit has extended a set.
ChangesMapped ==
    \A c \in Defined, fields \in SUBSET Fields, forCreate \in BOOLEAN :
        /\ {f \in Direct(c) : fields = {} \/ f \in fields} \subseteq Values(c, fields, forCreate)
        /\ \A m \in DOMAIN methods[c] :
               /\ methods[c][m].onlyCreate => forCreate
               /\ \/ fields = {}
                  \/ Named(c, m) \cap fields # {}
                  \/ Named(c, m) = {} /\ ~Extended(c, m)
               => m \in Values(c, fields, forCreate)

\* A class statement leaves the mappings of the other classes as they are
\* (test_mapper.py:70: "Mappings should not propagate to other classes").
NotPropagated ==
    [][\A c \in Defined : \A m \in DOMAIN methods[c] :
          changedBy'[<<methods[c][m].maker, m>>] = changedBy[<<methods[c][m].maker, m>>]]_vars
=============================================================================
