------------------------------ MODULE MCUfsStartup ------------------------------
(***************************************************************************)
(* An instance of UfsStartup: lanes that both ends agree on, and some that *)
(* they do not.                                                            *)
(***************************************************************************)
EXTENDS UfsStartup

\* Two of the seven commands of ufs_pmc_common: one for a setting the other list
\* makes too, and the last.
Lanes == <<"tx_lanes", "rx_lanes">>
Power == <<"rx_lanes", "hs_series">>

TwoOneUneven == {<<2, 2>>, <<1, 1>>, <<2, 1>>}

===============================================================================
