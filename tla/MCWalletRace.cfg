\* A payout rejected while another admin is completing it.
SPECIFICATION WalletSpec
CONSTANTS
  u1 = u1
  u2 = u2
  t1 = t1
  t2 = t2
  p1 = p1
  p2 = p2
  up = up
  down = down
  c1 = c1
  c2 = c2
  Users = {u1, u2}
  MaxCents = 6
  Topups = {t1, t2}
  Payouts = {p1, p2}
  Adjustments = {up, down}
  OwnerOf <- MCOwnerOf
  CentsOf <- MCCentsOf
  Clerks = {c1, c2}
INVARIANT ReturnedNeverPaid
CHECK_DEADLOCK FALSE
