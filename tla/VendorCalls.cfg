SPECIFICATION Spec
CONSTANTS
  Levels <- LevelsDef
  Markets <- MarketsDef
  Accounts <- AccountsDef
  Cut <- CutDef
  Others <- OthersDef
INVARIANTS
  IndInv
  BookAligned
  MarketsListed
  BalanceOfCurrency
  RequestsAuthentic
  FaultsKnown
PROPERTIES
  CallEnds
CHECK_DEADLOCK FALSE
