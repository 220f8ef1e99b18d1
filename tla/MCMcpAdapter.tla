------------------------------ MODULE MCMcpAdapter ------------------------------
(***************************************************************************)
(* McpAdapter for TLC: two HTTP requests at once or a pipelined stdin, and *)
(* messages that take every way through handleMessage and toolsCall.       *)
(***************************************************************************)
EXTENDS McpAdapter

CONSTANTS stdin0, c1, c2, env, alice, bob, empty, absent

Conns == {c1, c2}

Rpc(form, method, id, tool, given) ==
  [form |-> form, method |-> method, id |-> id, tool |-> tool, given |-> given,
   header |-> absent, bearer |-> absent, path |-> absent]

Keyless ==
  {Rpc("garbage", "none", "none", "none", {}),
   Rpc("huge", "none", "none", "none", {}),
   Rpc("blank", "none", "none", "none", {}),
   Rpc("ok", "notifications/initialized", "none", "none", {}),
   Rpc("ok", "notifications/cancelled", "some", "none", {}),
   Rpc("ok", "ping", "some", "none", {}),
   Rpc("ok", "tools/delete", "some", "none", {}),
   Rpc("ok", "tools/call", "some", "unknown", {"pnu"}),
   Rpc("ok", "tools/call", "some", "get_parcel", {"lon", "jibun"}),
   Rpc("ok", "tools/call", "some", "get_transactions", {"pnu"}),
   Rpc("ok", "tools/call", "none", "geocode", {"query"}),
   Rpc("ok", "tools/call", "some", "get_land_value", {"pnu"})}

ByHeader == Rpc("ok", "tools/call", "some", "geocode", {"query"})

Keyed ==
  {[ByHeader EXCEPT !.header = alice, !.bearer = bob],
   [ByHeader EXCEPT !.path = bob],
   [ByHeader EXCEPT !.bearer = empty, !.path = bob]}

Messages == Keyless \cup Keyed
================================================================================
