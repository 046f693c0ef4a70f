SPECIFICATION Spec
CHECK_DEADLOCK FALSE
CONSTANTS
  MaxMutes = 2
  MaxOffers = 2
  Titles <- MCTitles
INVARIANTS TitlesOK LastMuteApplied Agreement
PROPERTIES SendersReturn OfferSettles
