----------------------------- MODULE ConsoleApi -----------------------------
(***************************************************************************)
(* The calls the console makes of the gateway (web/static/js/api.js) and   *)
(* the routes the gateway serves (internal/api/router.go), as methods and  *)
(* paths below /v1 ("register" alone is beside it).  Nothing but their     *)
(* agreement joins the two files.                                          *)
(* A path is a sequence of segments, Id the place of an identifier; query  *)
(* strings and bodies are left out.                                        *)
(***************************************************************************)
EXTENDS Naturals, Sequences, FiniteSets

Id == "id"

Request(method, paths) == {[method |-> method, path |-> p] : p \in paths}

(* Paths below one group, or one instance.                                 *)
OfGroup(rests) == {<<"groups", Id>> \o rest : rest \in rests}
OfInstance(rests) == {<<"instances", Id>> \o rest : rest \in rests}

Broadcasts == <<"messages", "broadcast">>
-----------------------------------------------------------------------------
(* api.js                                                                  *)
Registration == Request("POST", {<<"register">>})

AccountCalls ==
  Request("GET", {<<"account">>, <<"account", "usage">>, <<"account", "audit-log">>, <<"logs">>})
  \cup Request("PATCH", {<<"account">>})

GroupCalls ==
  Request("GET", {<<"groups">>} \cup OfGroup({<<>>, <<"status">>}))
  \cup Request("POST", {<<"groups">>} \cup OfGroup({<<"pause">>, <<"resume">>}))
  \cup Request("PATCH", OfGroup({<<>>}))
  \cup Request("DELETE", OfGroup({<<>>}))

InstanceCalls ==
  Request("GET", OfGroup({<<"instances">>}) \cup OfInstance({<<>>, <<"qrcode">>, <<"status">>}))
  \cup Request("POST", OfGroup({<<"instances">>})
                       \cup OfInstance({<<"pair">>, <<"connect">>, <<"disconnect">>, <<"restart">>}))
  \cup Request("PATCH", OfInstance({<<>>}))
  \cup Request("DELETE", OfInstance({<<>>}))

MessageCalls ==
  Request("GET", OfGroup({<<"messages">>, <<"messages", Id, "status">>,
                          Broadcasts, Broadcasts \o <<Id>>}))
  \cup Request("POST", OfGroup({<<"messages", "send">>, Broadcasts}
                               \cup {Broadcasts \o <<Id, verb>> : verb \in {"pause", "resume", "cancel"}}))

(* Mutant: the webhook is configured by POST.                              *)
GroupDataCalls_PostsWebhook == Request("POST", OfGroup({<<"webhook">>, <<"webhook", "test">>}))

GroupDataCalls ==
  Request("GET", OfGroup({<<"metrics">>, <<"metrics", "daily">>, <<"metrics", "instances">>,
                          <<"blacklist">>, <<"webhook">>}))
  \cup Request("POST", OfGroup({<<"blacklist">>, <<"webhook", "test">>}))
  \cup Request("PUT", OfGroup({<<"webhook">>}))
  \cup Request("DELETE", OfGroup({<<"blacklist", Id>>}))

Calls == Registration \cup AccountCalls \cup GroupCalls \cup InstanceCalls \cup MessageCalls \cup GroupDataCalls
-----------------------------------------------------------------------------
(* router.go; a parameter of a route matches any one segment.              *)
Routes ==
  Request("GET",
    {<<"health", "detailed">>, <<"account">>, <<"account", "usage">>, <<"account", "audit-log">>,
     <<"logs">>, <<"groups">>}
    \cup OfGroup({<<>>, <<"status">>, <<"instances">>, <<"messages">>, <<"messages", Id, "status">>,
                  Broadcasts, Broadcasts \o <<Id>>, <<"metrics">>, <<"metrics", "daily">>,
                  <<"metrics", "instances">>, <<"blacklist">>, <<"webhook">>})
    \cup OfInstance({<<>>, <<"qrcode">>, <<"status">>}))
  \cup Request("POST",
    {<<"register">>, <<"groups">>}
    \cup OfGroup({<<"pause">>, <<"resume">>, <<"instances">>, <<"messages", "send">>, Broadcasts,
                  Broadcasts \o <<Id, "pause">>, Broadcasts \o <<Id, "resume">>,
                  Broadcasts \o <<Id, "cancel">>, <<"blacklist">>, <<"webhook", "test">>})
    \cup OfInstance({<<"pair">>, <<"connect">>, <<"disconnect">>, <<"restart">>}))
  \cup Request("PATCH", {<<"account">>} \cup OfGroup({<<>>}) \cup OfInstance({<<>>}))
  \cup Request("PUT", OfGroup({<<"webhook">>}))
  \cup Request("DELETE", OfGroup({<<>>, <<"blacklist", Id>>}) \cup OfInstance({<<>>}))

Matches(call, route) ==
  /\ call.method = route.method
  /\ Len(call.path) = Len(route.path)
  /\ \A i \in DOMAIN route.path : route.path[i] \in {Id, call.path[i]}

(* One handler answers the call.                                           *)
Served(call) == Cardinality({route \in Routes : Matches(call, route)}) = 1
=============================================================================
