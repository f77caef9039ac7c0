---------------------------- MODULE MCVtScanners ----------------------------
(* Fragments for VtScanners: the ends, the beginnings and the middles of     *)
(* sequences, so that every way of putting five of them together is read.    *)
EXTENDS VtScanners

MCFragments ==
  {<<"ESC">>, <<"ESC", "[", "?">>, <<"1049", "h">>, <<"47", ";", "7", "h">>, <<"1049", "l">>,
   <<"7", "l">>, <<"=">>, <<"]", "11", ";", "?">>, <<"]", "2", ";", "x">>,
   <<"BEL">>, <<"\\">>, <<"[", "6", "n">>}

=============================================================================
