CONSTANTS
    servers = servers
    users = users
    servers2 = servers2
    configxml = configxml
    usersxml = usersxml
    Configs <- MCConfigs
    Files <- MCFiles
    Target <- MCTarget
    Scenarios <- MCLoginThenServers
    TimeoutsHappen = FALSE
SPECIFICATION Spec
INVARIANT ConfigInEffect
