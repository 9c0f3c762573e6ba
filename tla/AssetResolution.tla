--------------------------- MODULE AssetResolution ---------------------------
(***************************************************************************)
(* Which held asset the words of a request mean, and whether the request   *)
(* may go on: asset_resolver.py.                                           *)
(*                                                                         *)
(* A text is what the resolver finds in it, not its characters:            *)
(*   market  the known market prefix before its first dot, or NoText       *)
(*   symbol  what follows the prefix; without one the text in upper case   *)
(*           if it has the form of a symbol (five letters at most and one  *)
(*           letter after a dot); else NoText                              *)
(*   name    its words in lower case, without Inc., Corp. and the like     *)
(* A hint also has the fields hinted (its market_hint or NoText) and       *)
(* entity (the words of its company_entity_label).  The canonical symbol   *)
(* of a candidate is its market and its ticker.                            *)
(***************************************************************************)
EXTENDS SequencesExt, FiniteSets

CONSTANT NoText

KnownMarkets == {"US", "HK", "CN", "SG", "JP", "UK", "EU", "AU", "CA", "CRYPTO"}
SupportedMarkets == {"US"}
USExchanges == {"US", "NASDAQ", "NYSE", "NYSEARCA", "AMEX", "ARCA", "OTC", "PINK"}

MarketOfExchange(exchange) ==
    IF exchange \in USExchanges THEN "US"
    ELSE IF exchange \in KnownMarkets THEN exchange ELSE "US"

(* A row of the assets table; its provider code may name a known market. *)
Candidate(row) ==
    [market |-> IF row.provider \in KnownMarkets THEN row.provider
                ELSE MarketOfExchange(row.exchange),
     ticker |-> row.ticker, name |-> row.name, id |-> row.id]

SameSymbol(c, d) == c.market = d.market /\ c.ticker = d.ticker

(* Of a source's candidates with one canonical symbol the first row's stays; *)
(* which row comes first is left open.                                       *)
Firsts(candidates) ==
    {c \in candidates : c = CHOOSE d \in candidates : SameSymbol(d, c)}

(* Of the candidates of both sources the first source's. *)
Candidates(positions, weights) ==
    LET first == Firsts({Candidate(r) : r \in positions})
    IN first \cup {c \in Firsts({Candidate(r) : r \in weights}) :
                      \A d \in first : ~SameSymbol(c, d)}
-----------------------------------------------------------------------------
LooksLikeSymbol(h) == h.market # NoText \/ h.symbol # NoText

MarketHint(h) == IF h.hinted # NoText THEN h.hinted ELSE h.market

(* Both without words match nothing. *)
MatchesName(c, label) ==
    /\ label # <<>> /\ c.name # <<>>
    /\ IsPrefix(label, c.name) \/ (Len(label) = 1 /\ label[1] \in ToSet(c.name))

Matches(h, candidates) ==
    {c \in candidates :
        IF h.market # NoText /\ h.symbol # NoText
        THEN c.market = h.market /\ c.ticker = h.symbol
        ELSE IF LooksLikeSymbol(h)
        THEN c.ticker = h.symbol /\ MarketHint(h) \in {NoText, c.market}
        ELSE MatchesName(c, h.name) \/ MatchesName(c, h.entity)}

Resolution(h, candidates) ==
    LET matches == Matches(h, candidates)
        Result(status, assets) == [status |-> status, assets |-> assets]
    IN IF MarketHint(h) \in KnownMarkets \ SupportedMarkets
       THEN Result("unsupported_market", {})
       ELSE IF Cardinality(matches) = 1 THEN Result("resolved", matches)
       ELSE IF Cardinality(matches) > 1 THEN Result("ambiguous", {})
       ELSE IF LooksLikeSymbol(h) THEN Result("not_in_portfolio", {})
       ELSE Result("unknown", {})

Resolutions(hints, candidates) == {Resolution(h, candidates) : h \in hints}

Resolved(resolutions) == UNION {r.assets : r \in resolutions}
-----------------------------------------------------------------------------
AnalyticalIntents == {"full_review", "risk_check", "deep_dive", "compare"}
AnalyticalGoals == {"risk_context", "portfolio_patterns"}

NeedsResolvedAssets(request) ==
    /\ request.hints # {}
    /\ \/ request.intent \in {"portfolio_fact", "what_changed", "deep_dive", "compare"}
       \/ "position_changes" \in request.goals

NeedsAnalysis(request) ==
    request.intent \in AnalyticalIntents \/ request.goals \cap AnalyticalGoals # {}

(* Mutant: some asset was resolved, so the request can be answered. *)
RequestIsAnswerable(request, resolutions, trade) ==
    /\ ~trade
    /\ NeedsAnalysis(request) => request.interpret
    /\ NeedsResolvedAssets(request) => Resolved(resolutions) # {} \/ resolutions = {}

(* validate_portfolio_request; trade: the query asks to trade. *)
RequestIsValid(request, resolutions, trade) ==
    /\ ~trade
    /\ NeedsAnalysis(request) => request.interpret
    /\ NeedsResolvedAssets(request) => \A r \in resolutions : r.status = "resolved"
=============================================================================
