SPECIFICATION LiveSpec
CONSTANTS
  Customers = {c1}
  Orders = {o1}
  Sessions = {s1}
  NoCustomer = NoCustomer
  Nobody = Nobody
INVARIANT CompanyInv
INVARIANT SessionOfCallIsWritable
INVARIANT RefusalsAreRaces
PROPERTY DependentsAreWritten
PROPERTY FlushesReturn
