SPECIFICATION Spec
CHECK_DEADLOCK FALSE
CONSTANTS
  Txs = {"swap", "send"}
  ChainOf <- Where
  TokenOf <- Moves
  NoToken = NoToken
  Receiverless = {"send"}
  Explorers <- EthereumPolygonTron
  MaxAsked = 2
  Pasted <- Links2
  Typings = {"x"}
  Currencies = {"USDT", "INR"}
  MaxEdits = 2
INVARIANTS AnswersAreTrue FormIsSound
PROPERTIES TypedEndsKept LinksAreRead
