----------------------------- MODULE MCServInfo -----------------------------
(***************************************************************************)
(* ServInfo with one db_proxy_server and two route servers, and, for the   *)
(* constants of the code, with one db_proxy_server alone.                  *)
(***************************************************************************)
EXTENDS ServInfo, TLC

MCKinds == "db" :> "db" @@ "r1" :> "route" @@ "r2" :> "route"
MCDbOnly == "db" :> "db"
=============================================================================
