--------------------------- MODULE Configuration ---------------------------
(***************************************************************************)
(* agent/config.py: what load_config asks of the three files, and which    *)
(* keys the program then reads without a default.  A configuration is the  *)
(* files that parse, the keys they hold, and the values of those that      *)
(* load_config or a panel looks at.                                        *)
(***************************************************************************)
EXTENDS Integers

RequiredRiskKeys ==
    {"delta.max_abs", "notional.max_loss_pct", "portfolio.max_delta_dollars_pct",
     "premium.min_credit_usd", "dte.min_days", "dte.max_days",
     "daily_loss.kill_switch_pct", "buying_power.min_reserve_pct"}

\* Mutant: the chain section has lost its feed.
AgentKeysWithoutFeed ==
    {"llm.provider", "llm.model", "max_turns_per_ticker", "cycle_timeout_seconds",
     "chain.strike_bracket_pct"}

RequiredAgentKeys ==
    {"llm.provider", "llm.model", "max_turns_per_ticker", "cycle_timeout_seconds",
     "chain.feed", "chain.strike_bracket_pct"}

RequiredOptionsKeys ==
    {"underlyings", "iv.high_regime_min", "iv.low_regime_max",
     "spread_builder.delta_range", "spread_builder.min_spread_width",
     "spread_builder.max_spread_width", "execution.limit_price_mode",
     "position_management.exit_if_profit_pct"}

RequiredKeys == RequiredRiskKeys \cup RequiredAgentKeys \cup RequiredOptionsKeys

\* _load_json: each file is there and parses.
AllFiles == {"risk", "options", "agent"}

IsFraction(pct) == 0 < pct /\ pct < 100

\* Without an interval the timeout is held against five minutes.
Interval(c) == IF "cycle_interval_seconds" \in c.keys THEN c.interval ELSE 300

\* load_credentials: half a key pair is none.
HasCredentials(c) == {"ALPACA_API_KEY", "ALPACA_SECRET_KEY"} \subseteq c.environment

Sound(c) ==
    /\ c.minDays <= c.maxDays
    /\ IsFraction(c.maxLossPct) /\ IsFraction(c.killSwitchPct)
    /\ c.deltaLow <= c.deltaHigh
    /\ c.timeout < Interval(c)

\* load_config, which raises ConfigError where this is false.
Loads(c, withCredentials) ==
    /\ c.files = AllFiles
    /\ RequiredKeys \subseteq c.keys
    /\ Sound(c)
    /\ withCredentials => HasCredentials(c)

-----------------------------------------------------------------------------

\* The keys each part of the program reads without a default.
Reads == [
    start    |-> {"underlyings", "llm.provider", "llm.model"},
    analysis |-> {"chain.strike_bracket_pct", "chain.feed", "chain.limit",
                  "dte.min_days", "dte.max_days"},
    loop     |-> {"max_turns_per_ticker", "cycle_timeout_seconds",
                  "spread_builder.delta_range"},
    gate     |-> RequiredRiskKeys,
    sidebar  |-> RequiredRiskKeys \cup {"underlyings", "spread_builder.delta_range"} ]

\* A KeyError, which nothing in run_cycle handles.
Stumbles(part, c) == ~ Reads[part] \subseteq c.keys
=============================================================================
