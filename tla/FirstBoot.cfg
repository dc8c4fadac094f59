SPECIFICATION Spec
PROPERTY EveryLostLinkRejoins
