--------------------------- MODULE MC_ConfigReload ---------------------------
(* The configs of the LDAP tests: ldap_servers() feeds config.xml,          *)
(* ldap_authenticated_users() feeds users.xml.                              *)
EXTENDS ConfigReload

CONSTANTS servers, users, servers2, configxml, usersxml

MCConfigs == {servers, users, servers2}
MCFiles   == {configxml, usersxml}
MCTarget  == (servers :> configxml) @@ (servers2 :> configxml) @@ (users :> usersxml)

\* a scenario with LDAP servers, then one with LDAP users: each main file
\* is fed by one add_config only
MCSeparate == << <<servers>>, <<users>> >>

\* login() (servers, then users inside), then a scenario that adds servers
\* again, as consecutive LDAP scenarios do
MCLoginThenServers == << <<servers, users>>, <<servers2>> >>
=============================================================================
