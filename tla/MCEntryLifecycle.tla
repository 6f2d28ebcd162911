---------------------------- MODULE MCEntryLifecycle ---------------------------
(* Model-checking instance of EntryLifecycle: one appliance of each shape.  *)
EXTENDS EntryLifecycle

Desc(key, res, platform, primary, meter, reads) ==
    [key |-> key, res |-> res, any |-> FALSE, platform |-> platform, primary |-> primary,
     meter |-> meter, reads |-> reads, gated |-> FALSE, was |-> "none"]

MCClimate == Desc("climate", "mode", "climate", TRUE, FALSE, "field")
MCEnergy  == Desc("energy", "energy", "sensor", TRUE, TRUE, "rep")
MCAlarm   == Desc("alarm", "alarms", "sensor", FALSE, FALSE, "rep")
MCSound   == [Desc("sound", "sound", "switch", TRUE, FALSE, "option") EXCEPT !.gated = TRUE]
MCPower   == [Desc("power", "power", "sensor", TRUE, FALSE, "field") EXCEPT !.was = "switch"]
MCDoor    == [Desc("door", "door", "sensor", TRUE, FALSE, "field") EXCEPT !.any = TRUE]
MCCaps ==
    "unknown" :> {MCPower} @@ "ac" :> {MCClimate, MCEnergy, MCAlarm, MCSound}
      @@ "oven" :> {MCPower, MCDoor, MCAlarm}

MCMoved == {<<"sensor", "climate">>}
MCObsolete == "unknown" :> {} @@ "ac" :> {} @@ "oven" :> {<<"switch", "alarm">>}
MCLeftover ==
    {<<"switch", <<<<0, NoId>>, "sound", 0>>>>, <<"sensor", <<<<0, NoId>>, "climate", 0>>>>,
     <<"switch", <<<<0, NoId>>, "power", 0>>>>, <<"switch", <<<<0, NoId>>, "alarm", 0>>>>,
     <<"sensor", <<<<2, NoId>>, "energy", 0>>>>}

MCLowerId == "u1" :> "u1" @@ "U1" :> "u1"
MCPreferred == {Master("mode")}

App(flat, main, batches, props, listed, links, installed) ==
    [flat |-> flat, main |-> main, batches |-> batches, props |-> props,
     listed |-> listed, links |-> links, installed |-> installed]

Aircon(sound) ==
    Master("mode") :> "full" @@ Master("info") :> "ac" @@ Master("sound") :> sound
Slot(n, mode, energy) ==
    Href(NoId, "mode", n) :> mode @@ Href(NoId, "energy", n) :> energy
Link(href, multi) == [href |-> href, multi |-> multi]
Device(pre, n) == Href(pre, "device", n)

Dongle(sound) ==
    App(FALSE, Aircon(sound),
        Device(NoId, 1) :> Slot(1, "full", "full") @@ Device(NoId, 2) :> Slot(2, "empty", "full"),
        NoBatch, {}, {Link(Device(NoId, n), FALSE) : n \in 0..2}, {<<1, NoId>>})
Bora ==
    App(FALSE, Aircon("opt"),
        [d \in {Device(i, 0) : i \in Ids} |-> Master("mode") :> "full"],
        Master("usage") :> "full", {"U1"}, {Link(Href("u1", "multi", 0), TRUE)}, {<<0, "u1">>})
Tree ==
    App(FALSE, Aircon("bare"), NoBatch,
        Href("u1", "mode", 0) :> "full" @@ Href("u1", "sound", 0) :> "opt",
        {"u1"}, {}, {<<0, "u1">>})
Oven ==
    App(FALSE, Master("info") :> "oven" @@ Master("power") :> "full" @@ Master("door") :> "full",
        Device(NoId, 2) :> (Href(NoId, "power", 2) :> "full")
          @@ Device(NoId, 3) :> (Href(NoId, "alarms", 3) :> "full"),
        NoBatch, {}, {}, {<<2, NoId>>})
Soundbar(hrefs) ==
    App(TRUE, [h \in {Master(r) : r \in hrefs} |-> "full"], NoBatch, NoBatch, {}, {}, {})

MCApps ==
    "dongle" :> Dongle("bare") @@ "dongle2" :> Dongle("opt") @@ "bora" :> Bora @@ "tree" :> Tree
      @@ "oven" :> Oven @@ "bar" :> Soundbar({"power", "mode", "alarms"})
      @@ "bar2" :> Soundbar({"power", "mode"})
MCUpgraded == [a \in DOMAIN MCApps |-> a]
MCNewer == [MCUpgraded EXCEPT !["dongle"] = "dongle2", !["dongle2"] = "dongle", !["bar"] = "bar2"]

MCQuiets ==
    [a \in DOMAIN MCApps |->
        CASE a \in {"dongle", "dongle2"} -> {{}, {Device(NoId, 1)}}
          [] a = "bora" -> {{}, {Device(i, 0) : i \in Ids}}
          [] a = "tree" -> {{}, {Href("u1", "mode", 0)}}
          [] a = "oven" -> {{}, {Device(NoId, 2)}}
          [] OTHER -> {{}} \union {{Master("power")}, {Master("power"), Master("mode")}}]

Budget(m, t, ch, r) == [misses |-> m, turns |-> t, choices |-> ch, restarts |-> r]
MCBudgets == {Budget(1, 1, 1, 1), Budget(0, 2, 0, 2), Budget(1, 0, 2, 1), Budget(2, 0, 0, 2)}

=============================================================================
