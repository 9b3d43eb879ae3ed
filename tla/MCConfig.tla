------------------------------ MODULE MCConfig ------------------------------
(* Model-checking instance of Config.                                        *)
EXTENDS Config

MCCommonLines == {<<"heartbeat_interval", 0>>, <<"heartbeat_interval", 10>>,
                  <<"heartbeat_interval", 100>>, <<"heartbeat_timeout", 10>>,
                  <<"heartbeat_timeout", 9>>, <<"tcp_mux", 0>>, <<"tcp_mux", 2>>}

MCServiceLines ==
  ({"type"} \X {"tcp", "mstsc", "socks5", "http", "none"}) \cup
  ({"local_port", "remote_port"} \X {0, 22}) \cup
  {<<"local_ip", "127.0.0.1">>, <<"custom_domains", <<"a.org", "b.org">>>>,
   <<"subdomain", "a">>, <<"locations", <<"/", "/pic">>>>, <<"group", "g">>,
   <<"http_user", "u">>, <<"unknown", "x">>}

\* A section that gives a type and nothing else.
MCTypeLines == {l \in MCServiceLines : l[1] = "type"}
=============================================================================
