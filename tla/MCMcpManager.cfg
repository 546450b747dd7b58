SPECIFICATION Spec
CONSTANTS
  Servers = {"web-git", "web_git"}
  Callers = {c1, c2}
  Tools = {"log", "show"}
  Offers <- MCOffers
  MaxClients = 5
SYMMETRY CallersAlike
INVARIANTS TypeOK ReconnectSound
