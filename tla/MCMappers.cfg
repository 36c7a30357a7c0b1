CONSTANTS
  Core = Core  Left = Left  Right = Right  Glue = Glue
  CoreMapper = CoreMapper  LeftMapper = LeftMapper  RightMapper = RightMapper  GlueMapper = GlueMapper
  magento = magento  magento1700 = magento1700
  product = product
  onCore = onCore  onLeft = onLeft  onRight = onRight
  name = name  price = price
  compute = compute
  NoParent = NoParent
  Unit = Unit
  AnyModel = AnyModel
  Modules = {Core, Left, Right, Glue}
  Depends <- MCDepends
  Backends = {magento, magento1700}
  Parent <- MCParent
  Classes = {CoreMapper, LeftMapper, RightMapper, GlueMapper}
  Models = {product}
  ModelOf <- MCModelOf
  Consumers = {onCore, onLeft, onRight}
  NamesOf <- MCNamesOf
  Replaced <- MCReplaced
  ModuleOf <- MCModuleOf
  Fields = {name, price}
  Methods = {compute}
  Bodies <- MCBodies
CONSTRAINT CoreOnService
SYMMETRY MCSymmetry
SPECIFICATION Spec
INVARIANTS
  UnitsFound
  ChangesMapped
PROPERTY AnswersFollowModules
