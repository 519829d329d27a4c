----------------------------- MODULE MCSnapshot -----------------------------
EXTENDS Snapshot, TLC

MCRoot == "spy" :> "SPY" @@ "spxw" :> "SPXW"
MCPrefix == "spy" :> "SPY" @@ "spxw" :> "SPX"
=============================================================================
