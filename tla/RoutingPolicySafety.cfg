SPECIFICATION Spec
CONSTANTS
  small = small
  coder = coder
  cloud = cloud
  unknown = unknown
  Human = Human
  NoEngine = NoEngine
  Local = Local
  Person = Person
  Hosted = Hosted
  Catalogs <- AllCatalogs
  Prompts <- AllPrompts
  Hints <- AllHints
INVARIANTS TypeOK WalksAgree PolicyKept ConfirmationWins FastNeverWeaker FastIsExplained 
