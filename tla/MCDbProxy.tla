----------------------------- MODULE MCDbProxy -----------------------------
(***************************************************************************)
(* DbProxy with two workers and one socket handle, which every connection  *)
(* reuses: the batches have an echoed message before a query, a PDU that   *)
(* closes the connection while its requests are with the workers, and both *)
(* kinds of body that cannot be parsed.                                    *)
(***************************************************************************)
EXTENDS DbProxy

MCBatches ==
    {<<"msg", "login">>, <<"allUser">>, <<"badLogin", "broken">>, <<"ignored", "badAllUser">>}

MCQueries == {<<"login">>, <<"msg", "allUser">>}
=============================================================================
