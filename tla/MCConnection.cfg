SPECIFICATION Spec
INVARIANTS ConnectHoldOwned ClientMeansSession WifiStatusSettled NoLostWakeup ResetStopsRejoin
PROPERTIES SessionRecovers LostLinkRejoins
