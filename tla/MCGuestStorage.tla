--------------------------- MODULE MCGuestStorage ----------------------------
(***************************************************************************)
(* Two guests that store under one key and make requests: one of the app   *)
(* "notes", through the bindings, whose buffers are the u32s they pass,    *)
(* and one of "clock", whose buffers have room for all; another execution  *)
(* of "notes" that reads into a buffer at the end of memory; and a guest   *)
(* that uses notifications, which does not link.                           *)
(***************************************************************************)
EXTENDS GuestStorage

MCGuests == {"bound", "roomy", "edge", "notifier"}
MCAppOf == [bound |-> "notes", roomy |-> "clock", edge |-> "notes", notifier |-> "notifier"]
MCStorageKeys == {"settings"}
MCParts == {"a", "b", "r", "e"}
MCValues == {<<"a", "a">>, <<>>}
MCBodies == {<<"r", "r">>, <<"r", "r", "r">>}
MCMessages == {<<"e">>, <<"e", "e">>}
MCPlace == [bound |-> 2, roomy |-> 1, edge |-> 7, notifier |-> 1]
MCRoom == [bound |-> 1, roomy |-> 3, edge |-> 1, notifier |-> 3]
MCErrorPlace == [bound |-> 3, roomy |-> 4, edge |-> 5, notifier |-> 4]
MCErrorRoom == [bound |-> 1, roomy |-> 3, edge |-> 1, notifier |-> 3]
MCImports ==
  [bound |-> {"storage_read", "storage_write"},
   roomy |-> {"storage_read", "storage_write", "net_http_get"},
   edge |-> {"storage_read"},
   notifier |-> {"notify_send"}]
MCBound == {"bound", "notifier"}
===============================================================================
