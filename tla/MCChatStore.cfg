CONSTANTS
  Workers = {w1, w2, w3}
  Users = {u1}
  Passwords = {spaced, plain}
  spaced = spaced
  plain = plain
  word = word
  Words = {word, plain}
  Token <- MCToken
  Contents = {c1, c2, long}
  Long = {long}
  Null = Null
  Miss = Miss
  RedisConns = 3
  MysqlConns = 2
  N = 2
  Budgets <- MCBudgets
  MaxAtOnce = 2
  MaxFaults = 1
SPECIFICATION Spec
SYMMETRY Symmetry
INVARIANTS TypeOK AccountsAgree RecentInOrder NoneStuck
