----------------------------- MODULE MCLinuxSpawn -----------------------------
EXTENDS LinuxSpawn

MCScenes ==
    [rt : {"std", "tokio"}, early : BOOLEAN, front : BOOLEAN, contain : {"none", "group", "leaf"}]
=============================================================================
