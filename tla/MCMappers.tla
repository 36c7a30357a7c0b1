------------------------------ MODULE MCMappers -----------------------------
(***************************************************************************)
(* Four modules: a connector, two addons that each may replace its class,  *)
(* and one that depends on both and may settle their conflict; a service   *)
(* with one version of its own; a mapper class in every module.            *)
(***************************************************************************)
EXTENDS Mappers, TLC

CONSTANTS Core, Left, Right, Glue,       \* modules
          CoreMapper, LeftMapper, RightMapper, GlueMapper,
          magento, magento1700,          \* backends
          product,                       \* a model
          onCore, onLeft, onRight,       \* consumers
          name, price,                   \* fields
          compute                        \* a mapping method

MCDepends == (Core :> {}) @@ (Left :> {Core}) @@ (Right :> {Core})
                 @@ (Glue :> {Core, Left, Right})
MCParent == (magento :> NoParent) @@ (magento1700 :> magento)
MCModelOf == [c \in Classes |-> product]
MCModuleOf == (CoreMapper :> Core) @@ (LeftMapper :> Left) @@ (RightMapper :> Right)
                  @@ (GlueMapper :> Glue) @@ (onCore :> Core)
                  @@ (onLeft :> Left) @@ (onRight :> Right)

On(fields, create) == compute :> [changedBy |-> fields, onlyCreate |-> create]
Plain == [direct |-> Inherited, methods |-> <<>>]
Named1 == [direct |-> Inherited, methods |-> On({name}, FALSE)]
Named2 == [direct |-> <<{price}>>, methods |-> On({price}, FALSE)]
MCBodies == (CoreMapper :> {Named1}) @@ (LeftMapper :> {Named2})
                @@ (RightMapper :> {Named2}) @@ (GlueMapper :> {Plain})
MCReplaced == (onCore :> {}) @@ (onLeft :> {onCore}) @@ (onRight :> {onCore})
MCNamesOf == [k \in Consumers |-> {product}]

\* Bound: the connector itself is about the service, not about one version.
CoreOnService == CoreMapper \in Defined => stated[CoreMapper].backend = magento

\* The two addons are alike.
MCSymmetry == {(Left :> Right) @@ (Right :> Left)
                   @@ (LeftMapper :> RightMapper) @@ (RightMapper :> LeftMapper)
                   @@ (onLeft :> onRight) @@ (onRight :> onLeft)}
=============================================================================
