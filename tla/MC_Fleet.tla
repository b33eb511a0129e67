------------------------------ MODULE MC_Fleet -----------------------------
(***************************************************************************)
(* The checked instances of Fleet: the services of service_config.py and   *)
(* the start-up order of the display facade.                               *)
(***************************************************************************)
EXTENDS Fleet

MCServices == <<"ingest", "inference">>
MCStartupOrder == <<"inference", "ingest">>
=============================================================================
