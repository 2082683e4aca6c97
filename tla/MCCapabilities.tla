--------------------------- MODULE MCCapabilities ---------------------------
(* Every capability: of Apple headphones that have most and of ones with a crown, of Galaxy and  *)
(* of Pixel Buds that differ in what they have and report.                                      *)
EXTENDS Capabilities

Bounds(sets, changes, links) == [sets |-> sets, changes |-> changes, links |-> links]
On(names, m, bounds) == [t \in names \X {m} |-> bounds]

\* One of each rule SetFromJson() follows, for long; the others may do the same things.
Leading == {"optimizedCharge", "stemControl", "battery"}
Others ==
    {"ancOneAirPod", "pressAndHoldDuration", "pressSpeed", "volumeSwipeLength",
     "personalizedVolume", "toneVolume", "endCall", "adaptiveAudioNoise", "customEq",
     "hearingProtection", "hearingProtectionStrength", "sleepDetection", "firmwareInfo",
     "stemControlState", "pressAndHoldAirPodMode", "pressAndHoldAirPodModeAnc", "ancOffMode"}

AppleCapabilities ==
    On({"volumeSwipe"}, "airpodspro2", Bounds(2, 1, 2))
        @@ On(Leading, "airpodspro2", Bounds(1, 1, 2))
        @@ On({"pressAndHoldAirPodMode"}, "airpodspro2", Bounds(2, 0, 1))
        @@ On({"anc"} \cup Others, "airpodspro2", Bounds(1, 1, 1))
        @@ On({"anc"}, "airpodsmax", Bounds(1, 0, 1))
        @@ On({"pressAndHoldAirPodModeAnc", "digitalCrown"}, "airpodsmax", Bounds(1, 1, 1))
GalaxyCapabilities ==
    On({"anc"}, "GalaxyBuds3Pro", Bounds(2, 1, 1)) @@ On({"anc"}, "GalaxyBuds3", Bounds(1, 1, 2))
        @@ On({"battery"}, "GalaxyBuds2", Bounds(0, 2, 2))
        @@ On({"anc", "battery"}, "GalaxyBuds", Bounds(1, 1, 2))
        @@ On({"battery"}, "GalaxyBuds3", Bounds(0, 1, 2))
PixelCapabilities ==
    On({"anc"}, "PixelBudsPro2", Bounds(1, 1, 1)) @@ On({"anc"}, "PixelBudsPro", Bounds(0, 1, 2))
        @@ On({"battery"}, "PixelBudsPro2", Bounds(0, 1, 2))
AllCapabilities == AppleCapabilities @@ GalaxyCapabilities @@ PixelCapabilities
OldAnc == On({"anc"}, "airpodsmax", Bounds(1, 0, 1))

=============================================================================
