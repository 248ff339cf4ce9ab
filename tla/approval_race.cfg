CONSTANTS
  Invoices = {1, 2}
  Documents = {d1, d2}
  w1 = w1
  w2 = w2
  Wallets = {w1}
  Keys = {k1}
  u1 = u1
  u2 = u2
  u3 = u3
  Users = {u1, u2, u3}
  Role <- MCRole
  Calls = {c1, c2}
  Workspaces <- MCWorkspaces
  Default <- MCDefault
  Amount <- MCAmount
  Wallet <- MCWallet
  None = None
  MaxEvents = 5
SPECIFICATION Spec
INVARIANT ChangeVoidsApproval
SYMMETRY Symmetry
CHECK_DEADLOCK FALSE
