SPECIFICATION Spec
CONSTANTS
  Customers = {"alice", "bob"}
  Cases = {"case1", "case2"}
  CustomerOf <- MCCustomerOf
  Keys <- MCOneKey
  Says <- MCOneSays
  MaxRecords = 4
INVARIANT OneCurrentFact
