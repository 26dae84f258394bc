------------------------------ MODULE ExchangeRates ------------------------------
(***************************************************************************)
(* ExchangeRateService (btpay/bitcoin/exchange.py): a loop asks the sources *)
(* one after the other, drops absurd and outlying prices and caches the     *)
(* average; fetch_now does the same in the caller's thread (the rates       *)
(* command of app.py).  An invoice that is finalized takes the cached rate. *)
(*                                                                         *)
(* Prices are integers and an average is kept as its sum and its count.     *)
(* "Slip" introduces a mistaken form that a property is tested with.        *)
(***************************************************************************)
EXTENDS Integers, FiniteSets, Sequences, SequencesExt

CONSTANTS
    Sources,        \* the configured sources, in order
    Currencies,
    Prices,         \* what a source may answer
    Low, High,      \* the bounds of _validate_rate
    NoRate          \* nothing is cached for a currency

ASSUME RatesAssumption ==
    /\ Prices \subseteq Int
    /\ Low \in Nat \ {0} /\ High \in Nat /\ Low <= High

Fetchers == {"loop", "fetch_now"}

VARIABLES
    rates,          \* _rates
    fetch,          \* per fetcher: the sources asked and the prices collected
    failing         \* outside: the sources that do not answer now

rateVars == <<rates, fetch, failing>>

NoFetch == [pc |-> "idle", asked |-> 0, all |-> [c \in Currencies |-> <<>>]]

RatesInit ==
    /\ rates = [c \in Currencies |-> NoRate]
    /\ fetch = [f \in Fetchers |-> NoFetch]
    /\ failing = ToSet(Sources)

-------------------------------------------------------------------------------

\* _validate_rate.
Valid(price) == price > 0 /\ Low <= price /\ price <= High

Distance(x, y) == IF x < y THEN y - x ELSE x - y

\* The average of the prices at some positions.  "of" is history: all of them.
AverageOver(prices, places) ==
    [sum |-> SumFunctionOnSet(prices, places), count |-> Cardinality(places), of |-> prices]

\* _average_rates, of a list in order: of three or more prices, only those within 5%
\* of the (upper) median.
Median(prices) == prices[Len(prices) \div 2 + 1]
Near(prices) ==
    {n \in DOMAIN prices : 20 * Distance(prices[n], Median(prices)) <= Median(prices)}

\* Slip: every price is averaged.
AverageRatesPlain(prices) == AverageOver(prices, DOMAIN prices)

AverageRates(prices) ==
    AverageOver(prices, IF Len(prices) < 3 THEN DOMAIN prices ELSE Near(prices))

-------------------------------------------------------------------------------
(* _do_fetch. *)

BeginFetch(f) ==
    /\ fetch[f].pc = "idle"
    /\ fetch' = [fetch EXCEPT ![f] = [NoFetch EXCEPT !.pc = "asking"]]
    /\ UNCHANGED <<rates, failing>>

NextSource(f) == Sources[fetch[f].asked + 1]
Asking(f) == fetch[f].pc = "asking" /\ fetch[f].asked < Len(Sources)

\* The source answers with prices for some currencies; the valid ones are collected.
\* The list is kept in the order in which _average_rates sorts it: nothing else
\* depends on its order.
WithPrice(prices, p) ==
    InsertAt(prices, Cardinality({n \in DOMAIN prices : prices[n] <= p}) + 1, p)

SourceAnswers(f, quoted) ==
    /\ Asking(f)
    /\ NextSource(f) \notin failing
    /\ fetch' = [fetch EXCEPT ![f].asked = @ + 1,
          ![f].all = [c \in Currencies |->
              IF c \in DOMAIN quoted /\ Valid(quoted[c])
              THEN WithPrice(fetch[f].all[c], quoted[c]) ELSE fetch[f].all[c]]]
    /\ UNCHANGED <<rates, failing>>

\* The source raises: it is logged and skipped.
FailFetch(f) ==
    /\ Asking(f)
    /\ NextSource(f) \in failing
    /\ fetch' = [fetch EXCEPT ![f].asked = @ + 1]
    /\ UNCHANGED <<rates, failing>>

\* The averages are cached under the lock; a currency nobody quoted keeps its
\* old rate.
FinishFetch(f) ==
    /\ fetch[f].pc = "asking" /\ ~ Asking(f)
    /\ rates' = [c \in Currencies |->
          IF fetch[f].all[c] = <<>> THEN rates[c] ELSE AverageRates(fetch[f].all[c])]
    /\ fetch' = [fetch EXCEPT ![f] = NoFetch]
    /\ UNCHANGED failing

\* Outside: a source fails or recovers.
SourceFlips(s) ==
    /\ failing' = IF s \in failing THEN failing \ {s} ELSE failing \cup {s}
    /\ UNCHANGED <<rates, fetch>>

Quotes == UNION {[C -> Prices] : C \in SUBSET Currencies}

Fetch(f) == \/ BeginFetch(f) \/ FailFetch(f) \/ FinishFetch(f)
            \/ \E quoted \in Quotes : SourceAnswers(f, quoted)

RatesNext ==
    \/ \E f \in Fetchers : Fetch(f)
    \/ \E s \in ToSet(Sources) : SourceFlips(s)

RatesSpec == RatesInit /\ [][RatesNext]_rateVars /\ WF_rateVars(Fetch("loop"))

-------------------------------------------------------------------------------
(* Properties. *)

\* Whatever the sources answer, and however the two fetches overlap, a cached
\* rate is an average of valid prices; if three sources answered, no single one
\* moves it further than 5% from the median of all that were collected.
RatesAreSane ==
    \A c \in Currencies : rates[c] # NoRate =>
        LET r == rates[c]
            n == Len(r.of)
        IN  /\ r.count > 0
            /\ r.count * Low <= r.sum /\ r.sum <= r.count * High
            /\ \A i, j \in 1 .. n : i < j => r.of[i] <= r.of[j]
            /\ n >= 3 => 20 * Distance(r.sum, r.count * r.of[n \div 2 + 1])
                             <= r.count * r.of[n \div 2 + 1]
===============================================================================
