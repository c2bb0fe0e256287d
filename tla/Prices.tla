------------------------------- MODULE Prices --------------------------------
(***************************************************************************)
(* The price book: dated rows per backend and model.  The row of the model *)
(* comes before that of the whole backend, the newest that is in effect    *)
(* before older ones, and a backend without a row has the price its        *)
(* adapter declares.                                                       *)
(***************************************************************************)
EXTENDS Integers, FiniteSets

CONSTANTS
  Backends,   \* names, as numbers: their order decides ties
  Models,     \* models with a price of their own
  Declared,   \* backend -> the price its adapter declares
  MaxDay      \* bound

AnyModel == ""   \* the model of a row for the whole backend

Price == [input : Nat, output : Nat]
Row == [backend : Backends, model : Models \cup {AnyModel}, from : 0..MaxDay, price : Price]

\* One row per backend, model and date.
PriceTable(table) ==
  /\ table \subseteq Row
  /\ \A row, other \in table :
       row.backend = other.backend /\ row.model = other.model /\ row.from = other.from
         => row = other

ASSUME PricesAssumption ==
  /\ Backends \subseteq Nat \ {0} /\ IsFiniteSet(Backends)
  /\ AnyModel \notin Models
  /\ Declared \in [Backends -> Price]
  /\ MaxDay \in Nat

VARIABLES
  prices,   \* table model_prices
  today     \* the UTC date

priceVars == <<prices, today>>

\* The rows price_info selects, and the order it puts them in.
InEffect(b, m) ==
  {row \in prices : row.backend = b /\ row.model \in {m, AnyModel} /\ row.from <= today}

Before(m, row, other) ==
  \/ row.model = m /\ other.model # m
  \/ (row.model = m <=> other.model = m) /\ row.from > other.from

PriceOf(b, m) ==
  IF InEffect(b, m) = {} THEN Declared[b]
  ELSE (CHOOSE row \in InEffect(b, m) :
          \A other \in InEffect(b, m) \ {row} : Before(m, row, other)).price

\* Tokens are counted in millions.
CostOf(b, m, tokens) ==
  LET p == PriceOf(b, m) IN tokens.input * p.input + tokens.output * p.output

\* upsert_price: the row replaces the one of its backend, model and date.
Upsert(row) ==
  prices' = {row} \cup {old \in prices : \/ old.backend # row.backend
                                         \/ old.model # row.model
                                         \/ old.from # row.from}

\* A second of the next day.
Midnight == today < MaxDay /\ today' = today + 1 /\ UNCHANGED prices

PricesTypeOK == PriceTable(prices) /\ today \in 0..MaxDay
=============================================================================
