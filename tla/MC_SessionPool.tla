--------------------------- MODULE MC_SessionPool ---------------------------
(* Two worker threads, two ClickHouse services and the host shell, named    *)
(* as Python and the testflows docker-compose files name them.              *)
EXTENDS SessionPool

CONSTANTS w1, w2, main, c1, c2, host

MCWorkers == {w1, w2}
MCNodes   == {c1}

\* threading default names "Thread-N" contain the separator "-"
MCThreadName == (w1 :> <<"Thread", "-", "1">>) @@ (w2 :> <<"Thread", "-", "2">>)
                @@ (main :> <<"MainThread">>)

MCNodeName == (c1 :> <<"clickhouse1">>) @@ (c2 :> <<"clickhouse2">>)
              @@ (host :> <<"None">>)

\* a service named with a dash, as docker-compose service names often are
MCDashedNodeName == (c1 :> <<"clickhouse", "-", "1">>) @@ (c2 :> <<"clickhouse2">>)
                    @@ (host :> <<"None">>)
=============================================================================
