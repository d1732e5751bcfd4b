CONSTANTS
    customer = customer
    hr = hr
    other = other
    customer_docs = customer_docs
    hr_docs = hr_docs
    NoCollection = NoCollection
    Unrestricted = Unrestricted
    Categories = {customer, hr, other}
    Collections = {customer_docs, hr_docs}
    CollectionOf <- MCCollectionOf
    Roles = {agent, manager}
SPECIFICATION Spec
INVARIANTS
    TypeOK
    WithinGrants
    SuppliedNarrows
    FailsClosed
