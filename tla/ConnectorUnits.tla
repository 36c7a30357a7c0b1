--------------------------- MODULE ConnectorUnits ---------------------------
(***************************************************************************)
(* How the connector finds the code that answers: the registries of        *)
(* classes of the backends (connector/backend.py), the events and their    *)
(* consumers (connector/event.py, connector/producer.py) and the choice by *)
(* module (connector/connector.py).                                        *)
(*                                                                         *)
(* The Python code of a module is imported once by the server, whatever    *)
(* the database; a module is installed in one database and not in another. *)
(* The state is one server with one database: what the import of the       *)
(* modules has registered, and which of them the database has installed.   *)
(* While a module is imported for another database, jobs of this one ask   *)
(* for classes and fire events.                                            *)
(***************************************************************************)
EXTENDS Integers, Sequences, FiniteSets

CONSTANTS Modules,      \* the addons
          Depends,      \* the modules a module depends on, all the way down
          Backends,     \* the versions of a service
          Parent,       \* the backend of which a version is a child, or NoParent
          NoParent,
          Classes,      \* the connector units
          Unit,         \* ConnectorUnit, the class from which all are derived
          Models,       \* the models
          ModelOf,      \* the model of a unit, its _model_name
          Consumers,    \* the functions that consume an event
          AnyModel,     \* the key None of Event._consumers
          NamesOf,      \* the models for which a consumer subscribes
          Replaced,     \* the consumers it replaces
          ModuleOf      \* the module in which a class or a consumer is defined

ASSUME UnitsAssumption ==
    /\ Depends \in [Modules -> SUBSET Modules]
    /\ \A m \in Modules : m \notin Depends[m]
                          /\ \A n \in Depends[m] : Depends[n] \subseteq Depends[m]
    /\ NoParent \notin Backends
    /\ Parent \in [Backends -> Backends \cup {NoParent}]
    /\ \A S \in SUBSET Backends : S # {} => \E b \in S : Parent[b] \notin S
    /\ Unit \notin Classes
    /\ AnyModel \notin Models
    /\ ModelOf \in [Classes -> Models]
    /\ NamesOf \in [Consumers -> SUBSET (Models \cup {AnyModel})]
    /\ Replaced \in [Consumers -> SUBSET Consumers]
    /\ ModuleOf \in [Classes \cup Consumers -> Modules]

VARIABLES loaded,      \* modules whose import has ended
          installed,   \* modules installed in the database
          mro,         \* the classes defined so far, each with its ancestors
          stated,      \* what the decorator of a class says
          entries,     \* Backend._class_entries of every backend
          subscribed,  \* consumers whose subscription has run
          consumers    \* Event._consumers: the consumers of every model

unitVars == <<loaded, installed, mro, stated, entries, subscribed, consumers>>

Defined == DOMAIN mro

\* The ancestors of a class, itself included: what issubclass looks at.
Ancestors(c) == {mro[c][i] : i \in DOMAIN mro[c]} \cup {Unit}

\* What the code of a module can name: its own and that of its dependencies.
Visible(m, S) == {x \in S : ModuleOf[x] \in Depends[m] \cup {m}}

UnitsTypeOK ==
    /\ installed \subseteq loaded /\ loaded \subseteq Modules
    /\ Defined \subseteq Classes
    /\ \A c \in Defined : mro[c] \in Seq(Defined)
    /\ DOMAIN stated = Defined
    /\ DOMAIN entries = Backends
    /\ \A b \in Backends : \A i \in DOMAIN entries[b] :
           /\ entries[b][i].cls \in Defined
           /\ entries[b][i].replacedBy \subseteq (i + 1)..Len(entries[b])
    /\ subscribed \subseteq Consumers
    /\ consumers \in [Models \cup {AnyModel} -> SUBSET Consumers]

InitUnits ==
    /\ loaded = {} /\ installed = {}
    /\ mro = <<>> /\ stated = <<>>
    /\ entries = [b \in Backends |-> <<>>]
    /\ subscribed = {}
    /\ consumers = [n \in Models \cup {AnyModel} |-> {}]

-----------------------------------------------------------------------------
\* Modules

\* The server imports a module after the ones it depends on.
Importing(m) == m \notin loaded /\ Depends[m] \subseteq loaded

\* is_module_installed: the registry of the database has loaded the module.
IsInstalled(m) == m \in installed

\* The import of a module ends: all its statements have run.
EndImport(m) ==
    /\ Importing(m)
    /\ {c \in Classes : ModuleOf[c] = m} \subseteq Defined
    /\ {k \in Consumers : ModuleOf[k] = m} \subseteq subscribed
    /\ loaded' = loaded \cup {m}
    /\ UNCHANGED <<installed, mro, stated, entries, subscribed, consumers>>

\* The database installs a module, after the ones it depends on.
Install(m) ==
    /\ m \in loaded \ installed
    /\ Depends[m] \subseteq installed
    /\ installed' = installed \cup {m}
    /\ UNCHANGED <<loaded, mro, stated, entries, subscribed, consumers>>

\* The database uninstalls a module and the ones that depend on it.
Uninstall(m) ==
    /\ m \in installed
    /\ installed' = {n \in installed : n # m /\ m \notin Depends[n]}
    /\ UNCHANGED <<loaded, mro, stated, entries, subscribed, consumers>>

-----------------------------------------------------------------------------
\* The registry of a backend

\* Where the order of the first of two bases can be cut: what precedes is not in
\* the second, the rest is in its order.
Cuts(bases) ==
    LET first == mro[bases[1]]  second == mro[bases[2]]
    IN  {n \in 0..Len(first) :
            /\ \A i \in 1..n : first[i] \notin Ancestors(bases[2])
            /\ \E at \in [(n + 1)..Len(first) -> DOMAIN second] :
                  /\ \A i \in DOMAIN at : second[at[i]] = first[i]
                  /\ \A i, j \in DOMAIN at : i < j => at[i] < at[j]}

OfFirst(bases) == SubSeq(mro[bases[1]], 1, CHOOSE n \in Cuts(bases) : TRUE)

\* The order in which Python looks for an attribute of a class with these bases.
Linearized(c, bases) ==
    <<c>> \o (CASE Len(bases) = 0 -> <<>>
                [] Len(bases) = 1 -> mro[bases[1]]
                [] Len(bases) = 2 -> OfFirst(bases) \o mro[bases[2]])

\* Python refuses two bases of which the second is derived from the first. Bound:
\* what two bases share comes last in the order of the first.
Consistent(bases) ==
    Len(bases) = 2 => bases[1] \notin Ancestors(bases[2]) /\ Cuts(bases) # {}

\* Mutant of WithReplaced: only the last class of a tuple is marked as replaced.
WithReplacedLast(es, replacing, i) ==
    [j \in DOMAIN es |->
        IF es[j].cls \in replacing
           /\ \A k \in DOMAIN es : es[k].cls \in replacing => k <= j
        THEN [es[j] EXCEPT !.replacedBy = @ \cup {i}] ELSE es[j]]

\* register_replace, for every class that entry i replaces.
WithReplaced(es, replacing, i) ==
    [j \in DOMAIN es |->
        IF es[j].cls \in replacing
        THEN [es[j] EXCEPT !.replacedBy = @ \cup {i}] ELSE es[j]]

\* register_class: a class can only replace classes that are registered on the
\* same backend, never itself. A class statement runs once.
RegisterClass(b, c, replacing) ==
    /\ c \notin replacing
    /\ replacing \subseteq {entries[b][i].cls : i \in DOMAIN entries[b]}
    /\ entries' = [entries EXCEPT ![b] =
           Append(WithReplaced(@, replacing, Len(@) + 1),
                  [cls |-> c, replacedBy |-> {}])]

\* A class statement with its decorator @backend(replacing=...).
ImportUnit(c, bases, b, replacing) ==
    /\ Importing(ModuleOf[c])
    /\ c \notin Defined
    /\ {bases[i] : i \in DOMAIN bases} \cup replacing
           \subseteq Visible(ModuleOf[c], Defined)
    /\ Consistent(bases)
    /\ mro' = [x \in Defined \cup {c} |->
                  IF x = c THEN Linearized(c, bases) ELSE mro[x]]
    /\ stated' = [x \in Defined \cup {c} |->
                     IF x = c THEN [backend |-> b, replacing |-> replacing] ELSE stated[x]]
    /\ RegisterClass(b, c, replacing)
    /\ UNCHANGED <<loaded, installed, subscribed, consumers>>

\* The conditions of follow_replacing on a class that nothing replaces.
Matches(c, base, model) ==
    /\ IsInstalled(ModuleOf[c])
    /\ base \in Ancestors(c)
    /\ model = ModelOf[c]

\* Mutant of FollowReplacing: a replaced class is skipped even if the modules of
\* all the classes that replace it are missing.
FollowReplacingAlways(b, base, model) ==
    {entries[b][i].cls : i \in {j \in DOMAIN entries[b] : entries[b][j].replacedBy = {}}}
        \cap {c \in Defined : Matches(c, base, model)}

\* follow_replacing: instead of an entry the ones that replace it, followed in
\* turn; the entry itself if all of those have been discarded.
FollowReplacing(b, base, model) ==
    LET es == entries[b]
        follow[i \in DOMAIN es] ==
            LET replacings == UNION {follow[j] : j \in es[i].replacedBy}
            IN  IF replacings # {} THEN replacings
                ELSE {c \in {es[i].cls} : Matches(c, base, model)}
    IN  UNION {follow[i] : i \in DOMAIN es}

\* Backend._get_classes: what the version has, or else what its parent has.
GetClasses(b, base, model) ==
    LET get[x \in Backends] ==
            LET found == FollowReplacing(x, base, model)
            IN  IF found # {} \/ Parent[x] = NoParent THEN found ELSE get[Parent[x]]
    IN  get[b]

-----------------------------------------------------------------------------
\* Events

\* Event.unsubscribe: only for the models that are named.
Unsubscribed(replaced, names) ==
    [n \in DOMAIN consumers |->
        IF n \in names THEN consumers[n] \ replaced ELSE consumers[n]]

\* Event.subscribe by the decorator of a consumer, for some models or for all;
\* the function it replaces is unsubscribed from the same models.
Subscribe(k) ==
    /\ Importing(ModuleOf[k])
    /\ k \notin subscribed
    /\ Replaced[k] \subseteq Visible(ModuleOf[k], subscribed)
    /\ consumers' = [n \in DOMAIN consumers |->
           Unsubscribed(Replaced[k], NamesOf[k])[n] \cup (IF n \in NamesOf[k] THEN {k} ELSE {})]
    /\ subscribed' = subscribed \cup {k}
    /\ UNCHANGED <<loaded, installed, mro, stated, entries>>

\* Event._consumers_for
ConsumersFor(n) == {k \in consumers[n] : IsInstalled(ModuleOf[k])}

\* Event.has_consumer_for, asked by the producers of on_record_write and unlink.
HasConsumerFor(model) == ConsumersFor(AnyModel) # {} \/ ConsumersFor(model) # {}

\* Event.fire: the consumers called for a record of the model.
Fire(model) == ConsumersFor(AnyModel) \cup ConsumersFor(model)

\* write and unlink of producer.py, on a record of the model.
Fired(model) == IF HasConsumerFor(model) THEN Fire(model) ELSE {}

-----------------------------------------------------------------------------
\* Properties

\* The classes of a version that could answer, by their statements alone.
Candidates(b, base, model) ==
    {c \in Defined : stated[c].backend = b /\ Matches(c, base, model)}

\* The classes that replace c, directly or through others.
ReplacersOf(S) == {y \in Defined : stated[y].replacing \cap S # {}}
Over(c) ==
    {x \in Defined : \A S \in SUBSET Defined : ReplacersOf({c} \cup S) \subseteq S => x \in S}

\* The versions of which b is a child, itself included.
Lineage(b) ==
    {x \in Backends : \A S \in SUBSET Backends :
        b \in S /\ {Parent[y] : y \in S} \subseteq S \cup {NoParent} => x \in S}

\* For every version, base class and model the walk through the entries finds the
\* installed classes that no installed class replaces, of the nearest version that
\* has any: a replacement counts if and only if its module is installed, however
\* long the chain, and one that replaces several classes settles their conflict
\* (docstrings of Backend and of get_class).
UnitsFound ==
    \A b \in Backends, base \in Defined \cup {Unit}, model \in Models :
        LET having == {x \in Lineage(b) : Candidates(x, base, model) # {}}
            nearest == {x \in having : \A y \in having : y \in Lineage(x)}
        IN  GetClasses(b, base, model) =
                UNION {{c \in Candidates(x, base, model) :
                           Over(c) \cap Candidates(x, base, model) = {}} : x \in nearest}

\* A database gets other answers only by what it installs. The import of a module
\* for another database changes no answer and adds no consumer; an installation
\* brings answers of the installed module only; after the removal of a module the
\* classes of the others that answered still do (get_openerp_module: "we will be
\* able to filter them according to the modules installation state").
AnswersFollowModules ==
    [][\A b \in Backends, base \in Defined \cup {Unit}, model \in Models :
          LET before == GetClasses(b, base, model)
              after == GetClasses(b, base, model)'
          IN  /\ installed' = installed =>
                     after = before /\ Fired(model)' \subseteq Fired(model)
              /\ installed \subseteq installed' =>
                     \A c \in after \ before : ModuleOf[c] \in installed' \ installed
              /\ installed' \subseteq installed =>
                     {c \in before : ModuleOf[c] \in installed'} \subseteq after]_unitVars
=============================================================================
