------------------------- MODULE MCUpgradeCampaign -------------------------
(* A campaign of a canary and one or two more routers. *)
EXTENDS UpgradeCampaign
=============================================================================
