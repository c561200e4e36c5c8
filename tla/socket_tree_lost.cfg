SPECIFICATION TreeSpec
CONSTANT MaxKey = 6
INVARIANT TreeIsNeverLost
